---- MODULE Spec2Model ----
(***************************************************************************)
(* A model of ecobee.control.                                              *)
(*                                                                         *)
(*   SpecServer  api_server.py: concurrent calls of run_cli_command under   *)
(*               the process-wide automation_lock.                         *)
(*   SpecRun     one automation run, cli.main or ecobee_automation.main,    *)
(*               from argument parsing to the exit code, for every command *)
(*               and configuration, on a catalogue of portal pages.        *)
(*   SpecLogin   the same run for one command, with the login page drawn    *)
(*               from every page of up to MaxElems elements.               *)
(*   SpecMode    set_heating_mode called directly, on every devices page   *)
(*               and system page of up to MaxDevElems and MaxModeElems     *)
(*               elements.                                                 *)
(*   SpecApi     one request served end to end: run_cli_command and the    *)
(*               CLI child it runs.                                        *)
(*   SpecConfig  one ConfigManager under sequences of set, get,            *)
(*               validate_required, str and _convert_value calls.          *)
(*   SpecLoad    the construction of a ConfigManager from an environment   *)
(*               and the three configuration files, and get calls on it.   *)
(*   SpecServerFair  the calls of run_cli_command with the fairness of     *)
(*               the child's end and of the serving thread.                *)
(***************************************************************************)
EXTENDS Integers, Sequences, FiniteSets, TLC

(***************************************************************************)
(* Bounds of the model.                                                    *)
(***************************************************************************)
\* Number of HTTP requests (calls of run_cli_command) the server receives.
NumRequests == 3

\* Largest number of elements of a login page drawn exhaustively.
MaxElems == 3

\* Largest number of elements of a devices page drawn exhaustively.
MaxDevElems == 2

\* Largest number of elements of a system page drawn exhaustively.
MaxModeElems == 2

(***************************************************************************)
(* Strings.  Page texts and attribute values are kept as TLA+ strings; the  *)
(* substring tests and lower() of the Python code work on their characters.*)
(***************************************************************************)
\* The characters of every string that occurs in a page or in the code.
Chars ==
    ("email" :> <<"e", "m", "a", "i", "l">>)
    @@ ("text" :> <<"t", "e", "x", "t">>)
    @@ ("password" :> <<"p", "a", "s", "s", "w", "o", "r", "d">>)
    @@ ("submit" :> <<"s", "u", "b", "m", "i", "t">>)
    @@ ("button" :> <<"b", "u", "t", "t", "o", "n">>)
    @@ ("username" :> <<"u", "s", "e", "r", "n", "a", "m", "e">>)
    @@ ("user" :> <<"u", "s", "e", "r">>)
    @@ ("passwd" :> <<"p", "a", "s", "s", "w", "d">>)
    @@ ("pass" :> <<"p", "a", "s", "s">>)
    @@ ("search" :> <<"s", "e", "a", "r", "c", "h">>)
    @@ ("Continue" :> <<"C", "o", "n", "t", "i", "n", "u", "e">>)
    @@ ("Log In" :> <<"L", "o", "g", " ", "I", "n">>)
    @@ ("Help" :> <<"H", "e", "l", "p">>)
    @@ ("log in" :> <<"l", "o", "g", " ", "i", "n">>)
    @@ ("sign in" :> <<"s", "i", "g", "n", " ", "i", "n">>)
    @@ ("login" :> <<"l", "o", "g", "i", "n">>)
    @@ ("signin" :> <<"s", "i", "g", "n", "i", "n">>)
    @@ ("continue" :> <<"c", "o", "n", "t", "i", "n", "u", "e">>)
    @@ ("Main Floor" :> <<"M", "a", "i", "n", " ", "F", "l", "o", "o", "r">>)
    @@ ("Upstairs" :> <<"U", "p", "s", "t", "a", "i", "r", "s">>)
    @@ ("System" :> <<"S", "y", "s", "t", "e", "m">>)
    @@ ("SYSTEM" :> <<"S", "Y", "S", "T", "E", "M">>)
    @@ ("Heat" :> <<"H", "e", "a", "t">>)
    @@ ("Aux" :> <<"A", "u", "x">>)
    @@ ("Auxiliary Heat" :> <<"A", "u", "x", "i", "l", "i", "a", "r", "y", " ", "H", "e", "a", "t">>)
    @@ ("Cool" :> <<"C", "o", "o", "l">>)
    @@ ("cool" :> <<"c", "o", "o", "l">>)
    @@ ("aux" :> <<"a", "u", "x">>)
    @@ ("heat" :> <<"h", "e", "a", "t">>)
    @@ ("auxil" :> <<"a", "u", "x", "i", "l">>)
    @@ ("main floor" :> <<"m", "a", "i", "n", " ", "f", "l", "o", "o", "r">>)
    @@ ("upstairs" :> <<"u", "p", "s", "t", "a", "i", "r", "s">>)
    @@ ("Settings" :> <<"S", "e", "t", "t", "i", "n", "g", "s">>)
    @@ ("Heat Main Floor" :> <<"H", "e", "a", "t", " ", "M", "a", "i", "n", " ", "F", "l", "o", "o", "r">>)
    @@ ("device" :> <<"d", "e", "v", "i", "c", "e">>)
    @@ ("thermostat" :> <<"t", "h", "e", "r", "m", "o", "s", "t", "a", "t">>)
    @@ ("card" :> <<"c", "a", "r", "d">>)
    @@ ("device-card" :> <<"d", "e", "v", "i", "c", "e", "-", "c", "a", "r", "d">>)
    @@ ("tile" :> <<"t", "i", "l", "e">>)
    @@ ("Aux Upstairs" :> <<"A", "u", "x", " ", "U", "p", "s", "t", "a", "i", "r", "s">>)
    @@ ("Password" :> <<"P", "a", "s", "s", "w", "o", "r", "d">>)
    @@ ("key" :> <<"k", "e", "y">>)
    @@ ("secret" :> <<"s", "e", "c", "r", "e", "t">>)
    @@ ("token" :> <<"t", "o", "k", "e", "n">>)
    @@ ("true" :> <<"t", "r", "u", "e">>)
    @@ ("TRUE" :> <<"T", "R", "U", "E">>)
    @@ ("True" :> <<"T", "r", "u", "e">>)
    @@ ("false" :> <<"f", "a", "l", "s", "e">>)
    @@ ("False" :> <<"F", "a", "l", "s", "e">>)
    @@ ("yes" :> <<"y", "e", "s">>)
    @@ ("On" :> <<"O", "n">>)
    @@ ("on" :> <<"o", "n">>)
    @@ ("no" :> <<"n", "o">>)
    @@ ("off" :> <<"o", "f", "f">>)
    @@ ("0" :> <<"0">>)
    @@ ("1" :> <<"1">>)
    @@ ("42" :> <<"4", "2">>)
    @@ ("-7" :> <<"-", "7">>)
    @@ ("007" :> <<"0", "0", "7">>)
    @@ ("10" :> <<"1", "0">>)
    @@ ("3.14" :> <<"3", ".", "1", "4">>)
    @@ ("1.2.3" :> <<"1", ".", "2", ".", "3">>)
    @@ ("hunter2" :> <<"h", "u", "n", "t", "e", "r", "2">>)

\* The characters of string s ("" is the empty string).
CharsOf(s) == IF s = "" THEN <<>> ELSE Chars[s]

UpperToLower ==
    ("A" :> "a") @@ ("B" :> "b") @@ ("C" :> "c") @@ ("D" :> "d") @@ ("E" :> "e") @@ ("F" :> "f") @@ ("G" :> "g") @@ ("H" :> "h") @@ ("I" :> "i") @@ ("J" :> "j") @@ ("K" :> "k") @@ ("L" :> "l") @@ ("M" :> "m") @@ ("N" :> "n") @@ ("O" :> "o") @@ ("P" :> "p") @@ ("Q" :> "q") @@ ("R" :> "r") @@ ("S" :> "s") @@ ("T" :> "t") @@ ("U" :> "u") @@ ("V" :> "v") @@ ("W" :> "w") @@ ("X" :> "x") @@ ("Y" :> "y") @@ ("Z" :> "z")

\* str.lower() on a character sequence.
Lower(cs) ==
    [i \in 1..Len(cs) |-> IF cs[i] \in DOMAIN UpperToLower THEN UpperToLower[cs[i]] ELSE cs[i]]

\* str.lower() on a string.
LowerStr(s) == CHOOSE t \in DOMAIN Chars : Chars[t] = Lower(CharsOf(s))

\* Python's `k in s` for strings: k occurs in s as a contiguous substring.
IsSubstring(k, s) ==
    \E i \in 0..(Len(s) - Len(k)) : \A j \in 1..Len(k) : s[i + j] = k[j]

\* a + " " + b
Join(a, b) == a \o <<" ">> \o b

(***************************************************************************)
(* api_server.py                                                           *)
(***************************************************************************)
VARIABLES
    automation_lock,   \* TRUE iff the threading.Lock is locked
    reqPc,             \* reqPc[r]: where call r of run_cli_command stands
    reqCommand,        \* reqCommand[r]: the command argument of call r
    reqResult,         \* reqResult[r]: the (dict, status) pair call r returns
    reqSpawned,        \* reqSpawned[r]: subprocess.run started a child for r
    reqInFlightAtCall, \* history: the calls that held the lock when r tried it
    \* One automation run (cli.py, src/ecobee_automation.py):
    entry,             \* "cli" (cli.main) or "module" (ecobee_automation.main)
    command,           \* args.command
    config,            \* the configuration values the run reads
    pc,                \* where the run stands
    browser,           \* "none", "open", "lost" (session dead) or "closed"
    url,               \* driver.current_url: "blank", "auth", "portal", "devices"
    dom,               \* the elements of the current page, in document order
    loc,               \* local variables of the function being executed
    trace,             \* history: what the run did, in order
    screenshots,       \* tags of the screenshot files written
    exitCode           \* the value main returned, -1 while it runs

serverVars == <<automation_lock, reqPc, reqCommand, reqResult, reqSpawned,
                reqInFlightAtCall>>

runVars == <<entry, command, config, pc, browser, url, dom, loc, trace,
             screenshots, exitCode>>

vars == <<serverVars, runVars>>

Requests == 1..NumRequests

\* The commands the four POST routes pass to run_cli_command.
RouteCommands == {"main-floor-aux", "main-floor-heat", "upstairs-aux", "upstairs-heat"}

\* Exit codes of the CLI child: 0 and 1 from cli.main, 2 from argparse.
ExitCodes == {0, 1, 2}

NoCommand == "none"
NoResult == [kind |-> "none"]

BusyResult ==
    [kind |-> "busy", success |-> FALSE,
     error |-> "Another automation is already running", status |-> 409]

\* A timeout reported as a success without output.
MutTimeoutResult ==
    [kind |-> "timeout", success |-> TRUE, error |-> "", status |-> 200]

\* Lines 65-67: what run_cli_command returns after TimeoutExpired.
TimeoutResult ==
    [kind |-> "timeout", success |-> FALSE,
     error |-> "Command timed out", status |-> 500]

ErrorResult ==
    [kind |-> "error", success |-> FALSE, error |-> "exception", status |-> 500]

\* The value run_cli_command returns for a child that ended with returncode rc.
MutExitResult(rc) ==
    [kind |-> "exit", success |-> TRUE, return_code |-> rc, status |-> 200]

ExitResult(rc) ==
    IF rc = 0
    THEN [kind |-> "exit", success |-> TRUE, return_code |-> rc, status |-> 200]
    ELSE [kind |-> "exit", success |-> FALSE, return_code |-> rc, status |-> 500]

\* automation_lock.acquire(blocking=False): never waits; it takes the lock
\* and answers True iff the lock was free.
MutLockAcquire(locked) == [acquired |-> TRUE, locked |-> TRUE]

LockAcquire(locked) == [acquired |-> ~locked, locked |-> TRUE]

\* The calls that are between a successful acquire and the release.
InFlight == {r \in Requests : reqPc[r] \in {"try", "subprocess", "finally"}}

\* The calls whose CLI child process is running.
Running == {r \in Requests : reqPc[r] = "subprocess"}

\* No run: the state of the run variables while the server alone is studied.
RunIdle ==
    /\ entry = "none"
    /\ command = "none"
    /\ config = [username |-> "absent", password |-> "absent",
                 screenshot_on_error |-> TRUE, thermostat_name |-> "absent"]
    /\ pc = "idle"
    /\ browser = "none"
    /\ url = "blank"
    /\ dom = <<>>
    /\ loc = [login |-> "none"]
    /\ trace = <<>>
    /\ screenshots = {}
    /\ exitCode = -1

\* The server before any request.
ServerIdle ==
    /\ automation_lock = FALSE
    /\ reqPc = [r \in Requests |-> "idle"]
    /\ reqCommand = [r \in Requests |-> NoCommand]
    /\ reqResult = [r \in Requests |-> NoResult]
    /\ reqSpawned = [r \in Requests |-> FALSE]
    /\ reqInFlightAtCall = [r \in Requests |-> {}]

InitServer == ServerIdle /\ RunIdle

\* run_cli_command with a blocking acquire: a call that finds the lock taken
\* waits for it and runs afterwards.
MutRunCliCommandAcquire(r, cmd) ==
    /\ reqPc[r] = "idle"
    /\ reqCommand' = [reqCommand EXCEPT ![r] = cmd]
    /\ IF automation_lock
       THEN /\ reqInFlightAtCall[r] = {}
            /\ reqInFlightAtCall' = [reqInFlightAtCall EXCEPT ![r] = InFlight]
            /\ UNCHANGED <<automation_lock, reqPc, reqResult>>
       ELSE /\ automation_lock' = TRUE
            /\ reqPc' = [reqPc EXCEPT ![r] = "try"]
            /\ UNCHANGED <<reqResult, reqInFlightAtCall>>
    /\ UNCHANGED reqSpawned
    /\ UNCHANGED runVars

\* Lines 34-37: a route calls run_cli_command(command); the non-blocking
\* acquire either fails, and the call returns the busy result at once, or
\* succeeds, and the call enters the try block.
RunCliCommandAcquire(r, cmd) ==
    /\ reqPc[r] = "idle"
    /\ LET a == LockAcquire(automation_lock) IN
        /\ automation_lock' = a.locked
        /\ reqPc' = [reqPc EXCEPT ![r] = IF a.acquired THEN "try" ELSE "returned"]
        /\ reqResult' = [reqResult EXCEPT ![r] =
                            IF a.acquired THEN NoResult ELSE BusyResult]
    /\ reqCommand' = [reqCommand EXCEPT ![r] = cmd]
    /\ reqInFlightAtCall' = [reqInFlightAtCall EXCEPT ![r] = InFlight]
    /\ UNCHANGED reqSpawned
    /\ UNCHANGED runVars

\* run_cli_command holding the lock only up to the start of the child.
MutRunCliCommandSpawn(r) ==
    /\ reqPc[r] = "try"
    /\ reqPc' = [reqPc EXCEPT ![r] = "subprocess"]
    /\ reqSpawned' = [reqSpawned EXCEPT ![r] = TRUE]
    /\ automation_lock' = FALSE
    /\ UNCHANGED <<reqCommand, reqResult, reqInFlightAtCall>>
    /\ UNCHANGED runVars

\* Lines 45-52: subprocess.run starts the CLI child and waits for it.
RunCliCommandSpawn(r) ==
    /\ reqPc[r] = "try"
    /\ reqPc' = [reqPc EXCEPT ![r] = "subprocess"]
    /\ reqSpawned' = [reqSpawned EXCEPT ![r] = TRUE]
    /\ UNCHANGED <<automation_lock, reqCommand, reqResult, reqInFlightAtCall>>
    /\ UNCHANGED runVars

\* Lines 45, 68-70: subprocess.run raises before a child exists (OSError).
RunCliCommandSpawnFails(r) ==
    /\ reqPc[r] = "try"
    /\ reqPc' = [reqPc EXCEPT ![r] = "finally"]
    /\ reqResult' = [reqResult EXCEPT ![r] = ErrorResult]
    /\ UNCHANGED <<automation_lock, reqCommand, reqSpawned, reqInFlightAtCall>>
    /\ UNCHANGED runVars

\* Lines 55-63: the child ended within the timeout with returncode rc.
RunCliCommandChildExit(r, rc) ==
    /\ reqPc[r] = "subprocess"
    /\ reqPc' = [reqPc EXCEPT ![r] = "finally"]
    /\ reqResult' = [reqResult EXCEPT ![r] = ExitResult(rc)]
    /\ UNCHANGED <<automation_lock, reqCommand, reqSpawned, reqInFlightAtCall>>
    /\ UNCHANGED runVars

\* Lines 50, 65-67: the child ran for 120 s; subprocess.run kills it and
\* raises TimeoutExpired.
RunCliCommandTimeout(r) ==
    /\ reqPc[r] = "subprocess"
    /\ reqPc' = [reqPc EXCEPT ![r] = "finally"]
    /\ reqResult' = [reqResult EXCEPT ![r] = TimeoutResult]
    /\ UNCHANGED <<automation_lock, reqCommand, reqSpawned, reqInFlightAtCall>>
    /\ UNCHANGED runVars

\* A finally clause that releases the lock only after a child that exited.
MutRunCliCommandRelease(r) ==
    /\ reqPc[r] = "finally"
    /\ automation_lock' = (reqResult[r].kind # "exit")
    /\ reqPc' = [reqPc EXCEPT ![r] = "returned"]
    /\ UNCHANGED <<reqCommand, reqResult, reqSpawned, reqInFlightAtCall>>
    /\ UNCHANGED runVars

\* Lines 71-72: the finally clause releases the lock and the call returns
\* the value its return statement computed.
RunCliCommandRelease(r) ==
    /\ reqPc[r] = "finally"
    /\ automation_lock' = FALSE
    /\ reqPc' = [reqPc EXCEPT ![r] = "returned"]
    /\ UNCHANGED <<reqCommand, reqResult, reqSpawned, reqInFlightAtCall>>
    /\ UNCHANGED runVars

NextServer ==
    \/ \E r \in Requests, cmd \in RouteCommands : RunCliCommandAcquire(r, cmd)
    \/ \E r \in Requests : RunCliCommandSpawn(r)
    \/ \E r \in Requests : RunCliCommandSpawnFails(r)
    \/ \E r \in Requests, rc \in ExitCodes : RunCliCommandChildExit(r, rc)
    \/ \E r \in Requests : RunCliCommandTimeout(r)
    \/ \E r \in Requests : RunCliCommandRelease(r)

SpecServer == InitServer /\ [][NextServer]_vars

\* An accepted call goes on: subprocess.run returns or raises within its
\* 120 s timeout, and the thread serving the call runs to its return.
FairServer ==
    \A r \in Requests :
        /\ WF_vars(RunCliCommandSpawn(r) \/ RunCliCommandSpawnFails(r))
        /\ WF_vars((\E rc \in ExitCodes : RunCliCommandChildExit(r, rc))
                   \/ RunCliCommandTimeout(r))
        /\ WF_vars(RunCliCommandRelease(r))

\* The lock does not look at the command: the fair specification posts
\* one route of each floor and mode.
LockCommands == {"main-floor-aux", "upstairs-heat"}

NextLock ==
    \/ \E r \in Requests, cmd \in LockCommands : RunCliCommandAcquire(r, cmd)
    \/ \E r \in Requests : RunCliCommandSpawn(r)
    \/ \E r \in Requests : RunCliCommandSpawnFails(r)
    \/ \E r \in Requests, rc \in ExitCodes : RunCliCommandChildExit(r, rc)
    \/ \E r \in Requests : RunCliCommandTimeout(r)
    \/ \E r \in Requests : RunCliCommandRelease(r)

SpecServerFair == InitServer /\ [][NextLock]_vars /\ FairServer

(***************************************************************************)
(* Claims about api_server.py, checked under SpecServer.                   *)
(***************************************************************************)
\* A result of a call that ran: anything but "not returned" and "busy".
IsRunResult(res) == res.kind \in {"exit", "timeout", "error"}

\* r1 and r2 overlapped: one tried the lock while the other held it.
Concurrent(r1, r2) == r1 \in reqInFlightAtCall[r2] \/ r2 \in reqInFlightAtCall[r1]

\* C1: in every interleaving at most one call of run_cli_command is between
\* its successful acquire and its release, the lock is locked for as long as
\* it is, and so at most one CLI child process runs at any moment.
C1_SingleFlight ==
    /\ Cardinality(InFlight) <= 1
    /\ Cardinality(Running) <= 1
    /\ (InFlight # {} => automation_lock)

\* C1 witness: a child is running while another call has come and gone.
C1_Witness ==
    \E r1, r2 \in Requests :
        /\ r1 # r2
        /\ reqPc[r1] = "subprocess"
        /\ r1 \in reqInFlightAtCall[r2]
        /\ reqPc[r2] = "returned"

\* C2: a call made while another call holds automation_lock has returned
\* the busy result (success false, 'Another automation is already running',
\* 409) in the very step of its acquire attempt; it started no child then
\* and starts none later, in every state that follows.
C2_BusyRejected ==
    \A r \in Requests :
        reqInFlightAtCall[r] # {} =>
            /\ reqPc[r] = "returned"
            /\ reqResult[r].kind = "busy"
            /\ reqResult[r].success = FALSE
            /\ reqResult[r].error = "Another automation is already running"
            /\ reqResult[r].status = 409
            /\ ~reqSpawned[r]

\* C2 witness: a call was rejected, the holder has since finished and the
\* lock is free again: the rejected call still has not run.
C2_Witness ==
    \E r1, r2 \in Requests :
        /\ r1 # r2
        /\ r1 \in reqInFlightAtCall[r2]
        /\ reqPc[r1] = "returned"
        /\ reqPc[r2] = "returned"
        /\ ~automation_lock

\* C3: of two calls that overlapped, once both have returned exactly one
\* returned the result of an executed run and the other the busy result;
\* never both a run result.
C3_ExactlyOneRuns ==
    \A r1, r2 \in Requests :
        (r1 # r2 /\ Concurrent(r1, r2)) =>
            /\ ~(IsRunResult(reqResult[r1]) /\ IsRunResult(reqResult[r2]))
            /\ (reqPc[r1] = "returned" /\ reqPc[r2] = "returned") =>
                   \/ IsRunResult(reqResult[r1]) /\ reqResult[r2] = BusyResult
                   \/ IsRunResult(reqResult[r2]) /\ reqResult[r1] = BusyResult

\* C3 witness: two overlapping calls have both returned, one of them with
\* the successful result of its run.
C3_Witness ==
    \E r1, r2 \in Requests :
        /\ r1 # r2
        /\ r1 \in reqInFlightAtCall[r2]
        /\ reqPc[r2] = "returned"
        /\ reqPc[r1] = "returned"
        /\ reqResult[r1].kind = "exit"
        /\ reqResult[r1].success

\* C21: a call whose child ran into the 120 s timeout returns success
\* False with the error 'Command timed out' and status 500, never a success
\* and never the child's output; once it has returned it does not hold the
\* lock, so the lock is locked only while some other call is in flight.
C21_TimeoutIsFailure ==
    \A r \in Requests :
        reqResult[r].kind = "timeout" =>
            /\ reqSpawned[r]
            /\ reqResult[r].success = FALSE
            /\ reqResult[r].error = "Command timed out"
            /\ reqResult[r].status = 500
            /\ reqResult[r] = TimeoutResult
            /\ reqPc[r] \in {"finally", "returned"}
            /\ reqPc[r] = "returned" =>
                  /\ r \notin InFlight
                  /\ automation_lock => \E r2 \in Requests \ {r} : r2 \in InFlight

\* C21 witness: one call has returned the timeout failure and, the lock
\* being free again, a later call has acquired it and started its child.
C21_Witness ==
    \E r1, r2 \in Requests :
        /\ r1 # r2
        /\ reqPc[r1] = "returned"
        /\ reqResult[r1].kind = "timeout"
        /\ reqPc[r2] = "subprocess"
        /\ reqInFlightAtCall[r2] = {}

(***************************************************************************)
(* The portal's pages.  A page is the sequence of its elements in document *)
(* order; an element handle is its index, 0 is None (not found).           *)
(***************************************************************************)
\* An element with no attribute set.
BlankElem ==
    [tag |-> "div", type |-> "", name |-> "", text |-> "", cls |-> "", for |-> 0,
     displayed |-> TRUE, enabled |-> TRUE, clickOk |-> TRUE, parentClickOk |-> TRUE]

Input(type, name, displayed) ==
    [BlankElem EXCEPT !.tag = "input", !.type = type, !.name = name,
                      !.displayed = displayed, !.clickOk = displayed]

Button(type, text, displayed, enabled) ==
    [BlankElem EXCEPT !.tag = "button", !.type = type, !.text = text,
                      !.displayed = displayed, !.enabled = enabled,
                      !.clickOk = displayed]

\* The elements login pages are built from.
LoginElems ==
    { Input("email", "email", TRUE),
      Input("text", "username", TRUE),
      Input("password", "password", TRUE),
      Input("password", "password", FALSE),
      Input("text", "passwd", TRUE),
      Input("submit", "", TRUE),
      Button("submit", "Continue", TRUE, TRUE),
      Button("button", "Log In", TRUE, TRUE),
      Button("button", "Help", TRUE, TRUE),
      Button("button", "Help", FALSE, TRUE),
      Button("button", "Help", TRUE, FALSE) }

\* element.click(), clear() and send_keys() raise on an element the user
\* could not reach (hidden or covered); a script-level click does not.
Interactable(e) == e.displayed /\ e.clickOk

\* The first index of page d whose element satisfies P, 0 if there is none.
FirstIndex(d, P(_)) ==
    IF \E i \in 1..Len(d) : P(d[i])
    THEN CHOOSE i \in 1..Len(d) : P(d[i]) /\ \A j \in 1..(i - 1) : ~P(d[j])
    ELSE 0

(***************************************************************************)
(* EcobeeAutomation._find_input_field and _find_submit_button              *)
(***************************************************************************)
KwUsername == <<"email", "username", "user">>
KwProbe == <<"password">>
KwPassword == <<"password", "passwd", "pass">>

\* Line 418: the words a login button's text is searched for.
LoginWords == {"log in", "sign in", "login", "signin", "submit", "continue"}

\* Lines 376-382: type, name, id, placeholder and autocomplete, lower-cased
\* and joined by blanks (the model's elements carry a type and a name).
AllAttrs(e) == Join(Lower(CharsOf(e.type)), Lower(CharsOf(e.name)))

InSeq(x, sq) == \E i \in 1..Len(sq) : sq[i] = x

IsTypeExact(e, type) == e.tag = "input" /\ e.type = type

\* Lines 384-387: some keyword occurs in the element's attributes.
MatchesKeyword(e, keywords) ==
    /\ e.tag = "input"
    /\ \E i \in 1..Len(keywords) : IsSubstring(Lower(CharsOf(keywords[i])), AllAttrs(e))

\* A locator that lets the exception of an exhausted cascade out: a
\* negative result stands for an exception raised to the caller.
MutNotFound == 0 - 1

\* Lines 389-394 and 428-433: the value both locators return when the
\* cascade is exhausted and when their own except clause caught an
\* exception: None, the handle 0.
NotFound == 0

\* The result of a cascade whose last strategy found element k (0: none).
FoundOr(k) == IF k = 0 THEN NotFound ELSE k

\* _find_input_field that scans the attributes before it looks for the type.
MutFindInputField(d, keywords, sessionOk) ==
    IF ~sessionOk THEN NotFound
    ELSE LET k == FirstIndex(d, LAMBDA e : MatchesKeyword(e, keywords)) IN
         IF k # 0 THEN k
         ELSE IF InSeq("email", keywords) /\ FirstIndex(d, LAMBDA e : IsTypeExact(e, "email")) # 0
              THEN FirstIndex(d, LAMBDA e : IsTypeExact(e, "email"))
              ELSE IF InSeq("password", keywords)
                   THEN FoundOr(FirstIndex(d, LAMBDA e : IsTypeExact(e, "password")))
                   ELSE NotFound

\* Lines 348-394.  The page d holds what is present when the wait ends.  A
\* dead session makes every driver call raise, which the function's own
\* except clause turns into None.
FindInputField(d, keywords, sessionOk) ==
    IF ~sessionOk THEN NotFound
    ELSE IF InSeq("email", keywords) /\ FirstIndex(d, LAMBDA e : IsTypeExact(e, "email")) # 0
         THEN FirstIndex(d, LAMBDA e : IsTypeExact(e, "email"))
    ELSE IF InSeq("password", keywords) /\ FirstIndex(d, LAMBDA e : IsTypeExact(e, "password")) # 0
         THEN FirstIndex(d, LAMBDA e : IsTypeExact(e, "password"))
    ELSE FoundOr(FirstIndex(d, LAMBDA e : MatchesKeyword(e, keywords)))

\* Line 418: the button's lower-cased text contains one of the login words.
HasLoginWord(e) ==
    /\ e.tag = "button"
    /\ \E w \in LoginWords : IsSubstring(CharsOf(w), Lower(CharsOf(e.text)))

\* _find_submit_button whose default is the first button, shown or not.
MutFindSubmitButton(d, sessionOk) ==
    IF ~sessionOk THEN NotFound
    ELSE IF FirstIndex(d, LAMBDA e : e.tag = "button" /\ e.type = "submit") # 0
         THEN FirstIndex(d, LAMBDA e : e.tag = "button" /\ e.type = "submit")
    ELSE IF FirstIndex(d, LAMBDA e : IsTypeExact(e, "submit")) # 0
         THEN FirstIndex(d, LAMBDA e : IsTypeExact(e, "submit"))
    ELSE IF FirstIndex(d, HasLoginWord) # 0
         THEN FirstIndex(d, HasLoginWord)
    ELSE FoundOr(FirstIndex(d, LAMBDA e : e.tag = "button"))

\* Lines 396-433.
FindSubmitButton(d, sessionOk) ==
    IF ~sessionOk THEN NotFound
    ELSE IF FirstIndex(d, LAMBDA e : e.tag = "button" /\ e.type = "submit") # 0
         THEN FirstIndex(d, LAMBDA e : e.tag = "button" /\ e.type = "submit")
    ELSE IF FirstIndex(d, LAMBDA e : IsTypeExact(e, "submit")) # 0
         THEN FirstIndex(d, LAMBDA e : IsTypeExact(e, "submit"))
    ELSE IF FirstIndex(d, HasLoginWord) # 0
         THEN FirstIndex(d, HasLoginWord)
    ELSE FoundOr(FirstIndex(d, LAMBDA e : e.tag = "button" /\ e.displayed /\ e.enabled))

(***************************************************************************)
(* One automation run: cli.main and ecobee_automation.main                 *)
(***************************************************************************)
\* A credential is not configured, configured as the empty string, or set.
Credentials == {"absent", "empty", "set"}

\* One entry of the run's history.
Ev(op, arg, n, ok) == [op |-> op, arg |-> arg, n |-> n, ok |-> ok]

\* Locals of a run that has not called anything yet.
NoLocals ==
    [login |-> "none", password_visible |-> FALSE, mode |-> "none",
     device |-> "none", op |-> "none", pending |-> -1,
     status |-> [current_temp |-> "None", target_temp |-> "None",
                 mode |-> "None", is_heating |-> "None"]]

BoolStr(b) == IF b THEN "true" ELSE "false"

\* The runs that start with an entry point of `entries`, a command of
\* `commands` (or none) and a configured thermostat name of `names`.
InitRun(entries, commands, names) ==
    /\ entry \in entries
    /\ command \in IF entry = "cli" THEN commands \cup {NoCommand} ELSE {NoCommand}
    /\ config \in [username : Credentials, password : Credentials,
                   screenshot_on_error : BOOLEAN, thermostat_name : names]
    /\ pc = "main"
    /\ browser = "none"
    /\ url = "blank"
    /\ dom = <<>>
    /\ loc = NoLocals
    /\ trace = <<>>
    /\ screenshots = {}
    /\ exitCode = -1

\* main returns `code` from outside the session scope.
ReturnFromMain(code, events) ==
    /\ exitCode' = code
    /\ pc' = "exited"
    /\ trace' = trace \o events \o <<Ev("exit", "", code, code = 0)>>

\* cli.py lines 149-152: no command given.
CliNoCommand ==
    /\ entry = "cli" /\ pc = "main" /\ command = NoCommand
    /\ ReturnFromMain(1, <<>>)
    /\ UNCHANGED <<entry, command, config, browser, url, dom, loc, screenshots>>

\* A credentials check that looks at the username only.
MutCliCheckCredentials ==
    /\ entry = "cli" /\ pc = "main" /\ command # NoCommand
    /\ IF config.username # "absent"
       THEN /\ pc' = "enter"
            /\ UNCHANGED <<trace, exitCode>>
       ELSE ReturnFromMain(1, <<>>)
    /\ UNCHANGED <<entry, command, config, browser, url, dom, loc, screenshots>>

\* cli.py lines 154-169: the configuration is loaded and both credentials
\* must be present (not None).
CliCheckCredentials ==
    /\ entry = "cli" /\ pc = "main" /\ command # NoCommand
    /\ IF config.username # "absent" /\ config.password # "absent"
       THEN /\ pc' = "enter"
            /\ UNCHANGED <<trace, exitCode>>
       ELSE ReturnFromMain(1, <<>>)
    /\ UNCHANGED <<entry, command, config, browser, url, dom, loc, screenshots>>

\* ecobee_automation.py lines 972-980 and 1000-1002: a required key whose
\* value is falsy raises ValueError, which main turns into exit code 1.
ModuleCheckRequired ==
    /\ entry = "module" /\ pc = "main"
    /\ IF config.username = "set" /\ config.password = "set"
       THEN /\ pc' = "enter"
            /\ UNCHANGED <<trace, exitCode>>
       ELSE ReturnFromMain(1, <<>>)
    /\ UNCHANGED <<entry, command, config, browser, url, dom, loc, screenshots>>

\* Lines 71-121 and 948-951: __enter__ calls setup_driver, which starts the
\* browser and sets the timeouts; the with body is entered.
SetupDriverOk ==
    /\ pc = "enter"
    /\ browser' = "open"
    /\ pc' = "login"
    /\ trace' = trace \o <<Ev("chrome", "", 0, TRUE), Ev("enter_scope", "", 0, TRUE)>>
    /\ UNCHANGED <<entry, command, config, url, dom, loc, screenshots, exitCode>>

\* Lines 74-114 and 123-125: setup_driver fails before webdriver.Chrome
\* returned (no driver binary, Chrome does not start).  __enter__ raises,
\* __exit__ is not called, main's except clause returns 1.
SetupDriverFailsEarly ==
    /\ pc = "enter"
    /\ ReturnFromMain(1, <<Ev("setup_failed", "early", 0, FALSE)>>)
    /\ UNCHANGED <<entry, command, config, browser, url, dom, loc, screenshots>>

\* Lines 114-125: webdriver.Chrome returned, self.driver is set and the
\* browser runs; implicitly_wait or set_page_load_timeout raises.  __enter__
\* raises EcobeeAutomationError, __exit__ is not called (the with statement
\* calls it only once __enter__ has returned), main's except clause
\* returns 1.
SetupDriverFailsLate ==
    /\ pc = "enter"
    /\ browser' = "open"
    /\ ReturnFromMain(1, <<Ev("chrome", "", 0, TRUE), Ev("setup_failed", "late", 0, FALSE)>>)
    /\ UNCHANGED <<entry, command, config, url, dom, loc, screenshots>>

\* The positions of a run inside the with body.
ScopePcs ==
    {"login", "login_username", "login_probe", "login_branch", "login_password",
     "login_submit", "login_verify", "after_login", "mode_start", "mode_select",
     "mode_system", "mode_control", "cmd_return", "status_start", "status_select",
     "status_system", "status_read", "leave"}

\* The environment: the browser or its driver dies; every later driver call
\* raises.
BrowserCrash ==
    /\ pc \in ScopePcs \ {"leave"}
    /\ browser = "open"
    /\ browser' = "lost"
    /\ UNCHANGED <<entry, command, config, pc, url, dom, loc, trace, screenshots, exitCode>>

(***************************************************************************)
(* EcobeeAutomation._take_screenshot and login                             *)
(***************************************************************************)
\* Lines 920-937: nothing happens when screenshots are switched off or no
\* driver exists; otherwise the file is written unless save_screenshot or
\* makedirs raises (`written` is the environment's answer), which is
\* swallowed.
ShotWritten(written) == config.screenshot_on_error /\ browser = "open" /\ written

ShotsAfter(tag, written) ==
    IF ShotWritten(written) THEN screenshots \cup {tag} ELSE screenshots

ShotEv(tag, written) == Ev("screenshot", tag, 0, ShotWritten(written))

\* A _take_screenshot that lets the failure of the write out to its caller.
MutShotRaises(written) ==
    config.screenshot_on_error /\ browser # "none" /\ ~(browser = "open" /\ written)

\* Lines 924-937: does _take_screenshot raise?  Its try block spans the
\* directory creation and the write, and the except clause only logs.
ShotRaises(written) == FALSE

\* An exception leaves login after `events`; it leaves the with body and
\* main returns 1.
LoginRaise(events) ==
    /\ trace' = trace \o events \o <<Ev("scope_exception", "login", 0, FALSE)>>
    /\ loc' = [loc EXCEPT !.login = "raised", !.pending = 1]
    /\ pc' = "leave"

\* login returns `value` after doing `events`.
LoginReturn(value, events) ==
    /\ trace' = trace \o events \o <<Ev("login_return", "", 0, value)>>
    /\ loc' = [loc EXCEPT !.login = BoolStr(value)]
    /\ pc' = "after_login"

\* A stage of login that fails, takes its screenshot and goes on as if
\* login had succeeded.
MutLoginFail(tag, written, events) ==
    /\ LoginReturn(TRUE, events \o <<ShotEv(tag, written)>>)
    /\ screenshots' = ShotsAfter(tag, written)

\* A stage of login that fails: _take_screenshot(tag), return False.
LoginFail(tag, written, events) ==
    IF ShotRaises(written)
    THEN /\ LoginRaise(events \o <<ShotEv(tag, written), ShotEv("login_error", written)>>)
         /\ UNCHANGED screenshots
    ELSE /\ LoginReturn(FALSE, events \o <<ShotEv(tag, written)>>)
         /\ screenshots' = ShotsAfter(tag, written)

\* Lines 222-225: an exception inside login.
LoginExcept(written, events) == LoginFail("login_error", written, events)

\* Lines 129-145: the credentials are read; login gives up if one is falsy,
\* otherwise it opens the login page `page`.
LoginStart(page, written) ==
    /\ pc = "login"
    /\ IF config.username # "set" \/ config.password # "set"
       THEN /\ LoginReturn(FALSE, <<>>)
            /\ UNCHANGED <<url, dom, screenshots>>
       ELSE IF browser # "open"
       THEN /\ LoginExcept(written, <<Ev("get", "login", 0, FALSE)>>)
            /\ UNCHANGED <<url, dom>>
       ELSE /\ url' = "auth"
            /\ dom' = page
            /\ pc' = "login_username"
            /\ trace' = trace \o <<Ev("get", "login", 0, TRUE)>>
            /\ UNCHANGED <<loc, screenshots>>
    /\ UNCHANGED <<entry, command, config, browser, exitCode>>

\* The default timeout of _find_input_field (line 348).
DefaultTimeout == 5

\* The timeout of the branch-detection probe (line 163).
ProbeTimeout == 2

\* A password lookup that waits no longer than the probe did.
MutPasswordTimeout == ProbeTimeout

\* The timeout of the password lookup that follows (line 186).
PasswordTimeout == 10

\* Lines 147-158: locate the username field, clear it and type the username.
LoginUsername(written) ==
    /\ pc = "login_username"
    /\ LET f == FindInputField(dom, KwUsername, browser = "open")
           found == Ev("find_input", "username", DefaultTimeout, f > 0)
       IN IF f = 0
          THEN LoginFail("username_field_not_found", written, <<found>>)
          ELSE IF f < 0 \/ ~Interactable(dom[f])
          THEN LoginExcept(written, <<found>>)
          ELSE /\ trace' = trace \o <<found, Ev("fill", "username", f, TRUE)>>
               /\ pc' = "login_probe"
               /\ UNCHANGED <<loc, screenshots>>
    /\ UNCHANGED <<entry, command, config, browser, url, dom, exitCode>>

\* The page d with its hidden password fields shown.
Reveal(d) ==
    [i \in 1..Len(d) |->
        IF IsTypeExact(d[i], "password")
        THEN [d[i] EXCEPT !.displayed = TRUE, !.clickOk = TRUE] ELSE d[i]]

\* A probe whose lookup acts on the page: hidden password fields get shown.
MutProbeReveals(written) ==
    /\ pc = "login_probe"
    /\ LET f == FindInputField(dom, KwProbe, browser = "open")
           visible == f > 0
           probed == Ev("find_input", "probe", ProbeTimeout, visible)
       IN /\ loc' = [loc EXCEPT !.password_visible = visible]
          /\ trace' = trace \o <<probed>>
          /\ dom' = Reveal(dom)
          /\ pc' = "login_branch"
          /\ UNCHANGED screenshots
    /\ UNCHANGED <<entry, command, config, browser, url, exitCode>>

\* A login that goes straight to the submit control when the probe sees a
\* password field.
MutLoginProbe(written) ==
    /\ pc = "login_probe"
    /\ LET f == FindInputField(dom, KwProbe, browser = "open")
           visible == f > 0 /\ dom[f].displayed
           probed == Ev("find_input", "probe", ProbeTimeout, visible)
       IN /\ loc' = [loc EXCEPT !.password_visible = visible]
          /\ trace' = trace \o <<probed>>
          /\ pc' = IF visible THEN "login_submit" ELSE "login_branch"
          /\ UNCHANGED screenshots
    /\ UNCHANGED <<entry, command, config, browser, url, dom, exitCode>>

\* Lines 160-168: is a displayed password field on the page already?
LoginProbe(written) ==
    /\ pc = "login_probe"
    /\ LET f == FindInputField(dom, KwProbe, browser = "open")
           visible == f > 0 /\ dom[f].displayed
           probed == Ev("find_input", "probe", ProbeTimeout, visible)
       IN IF f < 0
          THEN LoginExcept(written, <<probed>>)
          ELSE /\ loc' = [loc EXCEPT !.password_visible = visible]
               /\ trace' = trace \o <<probed>>
               /\ pc' = "login_branch"
               /\ UNCHANGED screenshots
    /\ UNCHANGED <<entry, command, config, browser, url, dom, exitCode>>

\* What the portal shows after the continue control was activated: the same
\* page, the page with its hidden password fields shown, or a password page.
PasswordPage == <<Input("password", "password", TRUE), Button("submit", "Log In", TRUE, TRUE)>>

AfterContinue(d) == {d, Reveal(d), PasswordPage}

\* login that clicks the continue control whatever the probe found.
MutLoginContinueNeeded == TRUE

\* Line 170: the two-step branch is taken iff the probe saw no password field.
LoginContinueNeeded == ~loc.password_visible

\* Lines 170-182: locate the continue control and click it by script; the
\* portal then shows `next`.
LoginContinue(next, written) ==
    /\ pc = "login_branch" /\ LoginContinueNeeded
    /\ next \in AfterContinue(dom)
    /\ LET b == FindSubmitButton(dom, browser = "open")
           found == Ev("find_submit", "continue", 0, b > 0)
       IN IF b = 0
          THEN /\ LoginFail("continue_button_not_found", written, <<found>>)
               /\ dom' = dom
          ELSE IF b < 0
          THEN /\ LoginExcept(written, <<found>>)
               /\ dom' = dom
          ELSE /\ trace' = trace \o <<found, Ev("js_click", "continue", b, TRUE)>>
               /\ dom' = next
               /\ pc' = "login_password"
               /\ UNCHANGED <<loc, screenshots>>
    /\ UNCHANGED <<entry, command, config, browser, url, exitCode>>

\* Lines 184-195: locate the password field, clear it and type the password.
LoginPassword(written) ==
    /\ pc = "login_password" \/ (pc = "login_branch" /\ ~LoginContinueNeeded)
    /\ LET f == FindInputField(dom, KwPassword, browser = "open")
           found == Ev("find_input", "password", PasswordTimeout, f > 0)
       IN IF f = 0
          THEN LoginFail("password_field_not_found", written, <<found>>)
          ELSE IF f < 0 \/ ~Interactable(dom[f])
          THEN LoginExcept(written, <<found>>)
          ELSE /\ trace' = trace \o <<found, Ev("fill", "password", f, TRUE)>>
               /\ pc' = "login_submit"
               /\ UNCHANGED <<loc, screenshots>>
    /\ UNCHANGED <<entry, command, config, browser, url, dom, exitCode>>

\* Lines 197-206: locate the submit control and click it; the portal then
\* either redirects to the portal or stays on the authentication host.
LoginSubmit(redirected, written) ==
    /\ pc = "login_submit"
    /\ LET b == FindSubmitButton(dom, browser = "open")
           found == Ev("find_submit", "submit", 0, b > 0)
       IN IF b = 0
          THEN /\ LoginFail("submit_button_not_found", written, <<found>>)
               /\ UNCHANGED <<url, dom>>
          ELSE IF b < 0 \/ ~Interactable(dom[b])
          THEN /\ LoginExcept(written, <<found>>)
               /\ UNCHANGED <<url, dom>>
          ELSE /\ trace' = trace \o <<found, Ev("click", "submit", b, TRUE)>>
               /\ url' = IF redirected THEN "portal" ELSE "auth"
               /\ dom' = <<>>
               /\ pc' = "login_verify"
               /\ UNCHANGED <<loc, screenshots>>
    /\ UNCHANGED <<entry, command, config, browser, exitCode>>

\* A login that takes the verification screenshot wherever it landed.
MutLoginVerify(written) ==
    /\ pc = "login_verify"
    /\ IF browser # "open"
       THEN LoginExcept(written, <<Ev("current_url", "", 0, FALSE)>>)
       ELSE /\ LoginReturn(TRUE, <<Ev("current_url", url, 0, TRUE),
                                   ShotEv("login_verification_needed", written)>>)
            /\ screenshots' = ShotsAfter("login_verification_needed", written)
    /\ UNCHANGED <<entry, command, config, browser, url, dom, exitCode>>

\* A login that asks for the screenshot and waits again after the wait.
MutSuspectEvents(written) ==
    <<ShotEv("login_verification_needed", written), Ev("grace_wait", "", 5, TRUE),
      ShotEv("login_verification_needed", written), Ev("grace_wait", "", 5, TRUE)>>

\* Lines 212-216: still on the authentication host: one screenshot is asked
\* for and login sleeps once.
SuspectEvents(written) ==
    <<ShotEv("login_verification_needed", written), Ev("grace_wait", "", 5, TRUE)>>

\* A login that reports failure when it is still on the authentication host.
MutSuspectResult == FALSE

\* Lines 218-219: the location is not read again; login returns True.
SuspectResult == TRUE

\* Lines 208-220: after the settle delay the location is read once; on the
\* authentication host a screenshot is taken and login sleeps once more;
\* then login returns True.
LoginVerify(written) ==
    /\ pc = "login_verify"
    /\ IF browser # "open"
       THEN LoginExcept(written, <<Ev("current_url", "", 0, FALSE)>>)
       ELSE IF url = "auth"
       THEN /\ LoginReturn(SuspectResult,
                           <<Ev("current_url", url, 0, TRUE)>> \o SuspectEvents(written))
            /\ screenshots' = ShotsAfter("login_verification_needed", written)
       ELSE /\ LoginReturn(TRUE, <<Ev("current_url", url, 0, TRUE)>>)
            /\ UNCHANGED screenshots
    /\ UNCHANGED <<entry, command, config, browser, url, dom, exitCode>>

(***************************************************************************)
(* EcobeeAutomation.select_thermostat, set_heating_mode, get_heating_status*)
(***************************************************************************)
Anchor(text, clickOk) ==
    [BlankElem EXCEPT !.tag = "a", !.text = text, !.clickOk = clickOk]

Div(text, cls, displayed, clickOk, parentClickOk) ==
    [BlankElem EXCEPT !.text = text, !.cls = cls, !.displayed = displayed,
                      !.clickOk = clickOk, !.parentClickOk = parentClickOk]

Label(text, for, clickOk) ==
    [BlankElem EXCEPT !.tag = "label", !.text = text, !.for = for, !.clickOk = clickOk]

Radio(clickOk) ==
    [BlankElem EXCEPT !.tag = "input", !.type = "radio", !.clickOk = clickOk]

\* Line 643 and 671: the lower-cased name occurs in the lower-cased text.
TextHasNoCase(e, name) == IsSubstring(Lower(CharsOf(name)), Lower(CharsOf(e.text)))

\* Line 653: XPath contains(text(), name), which compares case as written.
TextHas(e, name) == IsSubstring(CharsOf(name), CharsOf(e.text))

\* Line 669: the class attribute contains device, thermostat or card.
IsCard(e) ==
    \E w \in {"device", "thermostat", "card"} : IsSubstring(CharsOf(w), CharsOf(e.cls))

\* Lines 658-661 and 780-783: click the element, and its parent if that
\* raises; TRUE iff one of the two clicks went through.
ClickOrParent(e) == Interactable(e) \/ e.parentClickOk

\* Lines 620-685.  The name searched for is the argument or, without one,
\* the configured name, 'Main Floor' by default.  The result says whether
\* a click went through and lists the clicks tried.
SelectThermostat(d, name, sessionOk) ==
    LET a == FirstIndex(d, LAMBDA e : e.tag = "a" /\ TextHasNoCase(e, name))
        t == FirstIndex(d, LAMBDA e : TextHas(e, name) /\ e.displayed)
        c == FirstIndex(d, LAMBDA e : IsCard(e) /\ TextHasNoCase(e, name))
        evA == IF a # 0 THEN <<Ev("select_click", "link", a, Interactable(d[a]))>> ELSE <<>>
        evT == IF t # 0 THEN <<Ev("select_click", "text", t, ClickOrParent(d[t]))>> ELSE <<>>
        evC == IF c # 0 THEN <<Ev("select_click", "card", c, Interactable(d[c]))>> ELSE <<>>
    IN IF ~sessionOk THEN [ok |-> FALSE, events |-> <<>>]
       ELSE IF a # 0 /\ Interactable(d[a]) THEN [ok |-> TRUE, events |-> evA]
       ELSE IF t # 0 /\ ClickOrParent(d[t]) THEN [ok |-> TRUE, events |-> evA \o evT]
       ELSE IF c # 0 /\ Interactable(d[c]) THEN [ok |-> TRUE, events |-> evA \o evT \o evC]
       ELSE [ok |-> FALSE, events |-> evA \o evT \o evC]

\* Lines 775-788 and 706-720: the first displayed element whose text
\* contains System or SYSTEM is clicked (or its parent).  raised: the
\* search or both clicks raised.
SystemTile(d, sessionOk) ==
    LET t == FirstIndex(d, LAMBDA e : (TextHas(e, "System") \/ TextHas(e, "SYSTEM"))
                                      /\ e.displayed)
    IN IF ~sessionOk THEN [raised |-> TRUE, clicked |-> FALSE, events |-> <<>>]
       ELSE IF t = 0 THEN [raised |-> FALSE, clicked |-> FALSE, events |-> <<>>]
       ELSE IF ClickOrParent(d[t])
            THEN [raised |-> FALSE, clicked |-> TRUE,
                  events |-> <<Ev("system_click", "", t, TRUE)>>]
            ELSE [raised |-> TRUE, clicked |-> FALSE,
                  events |-> <<Ev("system_click", "", t, FALSE)>>]

\* A match that wants the label's text to be the mode.
MutLabelMatches(e, mode) ==
    /\ e.tag = "label"
    /\ Lower(CharsOf(mode)) = Lower(CharsOf(e.text))

\* Line 798: the label's text names the mode ('auxil' widens 'aux').
LabelMatches(e, mode) ==
    /\ e.tag = "label"
    /\ \/ IsSubstring(Lower(CharsOf(mode)), Lower(CharsOf(e.text)))
       \/ mode = "aux" /\ IsSubstring(CharsOf("auxil"), Lower(CharsOf(e.text)))

\* A label scan that goes to the control a label names without trying the
\* label.
RECURSIVE MutLabelScan(_, _, _, _)
MutLabelScan(d, mode, i, events) ==
    IF i > Len(d) THEN [ok |-> FALSE, events |-> events]
    ELSE IF ~LabelMatches(d[i], mode) THEN MutLabelScan(d, mode, i + 1, events)
    ELSE IF d[i].for \in 1..Len(d) /\ Interactable(d[d[i].for])
         THEN [ok |-> TRUE,
               events |-> Append(events, Ev("mode_click", "radio", d[i].for, TRUE))]
    ELSE IF Interactable(d[i])
         THEN [ok |-> TRUE, events |-> Append(events, Ev("mode_click", "label", i, TRUE))]
    ELSE MutLabelScan(d, mode, i + 1, Append(events, Ev("mode_click", "label", i, FALSE)))

\* Lines 795-818, from label i on: a matching label is clicked; if that
\* raises, the control its `for` names is clicked; if that fails too the
\* loop goes on to the next label.
RECURSIVE LabelScan(_, _, _, _)
LabelScan(d, mode, i, events) ==
    IF i > Len(d) THEN [ok |-> FALSE, events |-> events]
    ELSE IF ~LabelMatches(d[i], mode) THEN LabelScan(d, mode, i + 1, events)
    ELSE IF Interactable(d[i])
         THEN [ok |-> TRUE, events |-> Append(events, Ev("mode_click", "label", i, TRUE))]
    ELSE LET tried == Append(events, Ev("mode_click", "label", i, FALSE))
             r == d[i].for
         IN IF r \in 1..Len(d) /\ Interactable(d[r])
            THEN [ok |-> TRUE, events |-> Append(tried, Ev("mode_click", "radio", r, TRUE))]
            ELSE IF r \in 1..Len(d)
            THEN LabelScan(d, mode, i + 1, Append(tried, Ev("mode_click", "radio", r, FALSE)))
            ELSE LabelScan(d, mode, i + 1, tried)

\* Lines 821-831, from element i on: the first displayed element whose
\* lower-cased text contains the mode and whose click goes through.
RECURSIVE FreeTextScan(_, _, _, _)
FreeTextScan(d, mode, i, events) ==
    IF i > Len(d) THEN [ok |-> FALSE, events |-> events]
    ELSE IF ~(TextHasNoCase(d[i], mode) /\ d[i].displayed)
         THEN FreeTextScan(d, mode, i + 1, events)
    ELSE IF Interactable(d[i])
         THEN [ok |-> TRUE, events |-> Append(events, Ev("mode_click", "text", i, TRUE))]
    ELSE FreeTextScan(d, mode, i + 1, Append(events, Ev("mode_click", "text", i, FALSE)))

\* Lines 790-838: the label search, then the free-text scan.
ModeControlScan(d, mode, sessionOk) ==
    IF ~sessionOk THEN [ok |-> FALSE, events |-> <<>>]
    ELSE LET ls == LabelScan(d, mode, 1, <<>>)
         IN IF ls.ok THEN ls ELSE FreeTextScan(d, mode, 1, ls.events)

\* cli.py lines 32-85 and ecobee_automation.py lines 845-875: the mode and
\* the device each command stands for.
CommandMode(c) == IF c \in {"main-floor-aux", "upstairs-aux"} THEN "aux" ELSE "heat"

CommandDevice(c) ==
    IF c \in {"main-floor-aux", "main-floor-heat"} THEN "Main Floor" ELSE "Upstairs"

\* set_heating_mode returns `value` after doing `events`.
OpReturn(value, events) ==
    /\ trace' = trace \o events \o <<Ev("op_return", "set_heating_mode", 0, value)>>
    /\ loc' = [loc EXCEPT !.op = BoolStr(value)]
    /\ pc' = "cmd_return"

\* An except clause of set_heating_mode that returns False and takes no
\* screenshot.
MutModeExcept(written, events) ==
    /\ OpReturn(FALSE, events)
    /\ UNCHANGED screenshots

\* Lines 840-843: an exception inside set_heating_mode.
ModeExcept(written, events) ==
    IF ShotRaises(written)
    THEN /\ trace' = trace \o events \o <<ShotEv("mode_change_error", written),
                                          Ev("op_raise", "set_heating_mode", 0, FALSE)>>
         /\ loc' = [loc EXCEPT !.op = "raised"]
         /\ pc' = "cmd_return"
         /\ UNCHANGED screenshots
    ELSE /\ OpReturn(FALSE, events \o <<ShotEv("mode_change_error", written)>>)
         /\ screenshots' = ShotsAfter("mode_change_error", written)

\* cli.main that runs the command without looking at login's result.
MutCliAfterLogin ==
    /\ entry = "cli" /\ pc = "after_login"
    /\ loc' = [loc EXCEPT !.mode = CommandMode(command),
                          !.device = CommandDevice(command)]
    /\ pc' = "mode_start"
    /\ trace' = Append(trace, Ev("operation", command, 0, TRUE))
    /\ UNCHANGED <<entry, command, config, browser, url, dom, screenshots, exitCode>>

\* cli.py lines 175-192: a failed login returns 1 from inside the with
\* body; otherwise the command's function calls set_heating_mode.
CliAfterLogin ==
    /\ entry = "cli" /\ pc = "after_login"
    /\ IF loc.login = "false"
       THEN /\ loc' = [loc EXCEPT !.pending = 1]
            /\ pc' = "leave"
            /\ UNCHANGED trace
       ELSE /\ loc' = [loc EXCEPT !.mode = CommandMode(command),
                                  !.device = CommandDevice(command)]
            /\ pc' = "mode_start"
            /\ trace' = Append(trace, Ev("operation", command, 0, TRUE))
    /\ UNCHANGED <<entry, command, config, browser, url, dom, screenshots, exitCode>>

\* Lines 754-765: the mode is checked, then the devices page `page` is
\* opened unless it is the current location.
ModeStart(page, written) ==
    /\ pc = "mode_start"
    /\ IF LowerStr(loc.mode) \notin {"aux", "heat"} \/ browser # "open"
       THEN /\ ModeExcept(written, <<>>)
            /\ UNCHANGED <<url, dom>>
       ELSE /\ IF url # "devices"
               THEN /\ url' = "devices"
                    /\ dom' = page
                    /\ trace' = Append(trace, Ev("get", "devices", 0, TRUE))
               ELSE UNCHANGED <<url, dom, trace>>
            /\ pc' = "mode_select"
            /\ loc' = [loc EXCEPT !.mode = LowerStr(loc.mode)]
            /\ UNCHANGED screenshots
    /\ UNCHANGED <<entry, command, config, browser, exitCode>>

\* Lines 767-769: select_thermostat; its failure is raised and caught at
\* line 840.  After the click the portal shows `next`.
ModeSelect(next, written) ==
    /\ pc = "mode_select"
    /\ LET r == SelectThermostat(dom, loc.device, browser = "open")
       IN IF r.ok
          THEN /\ trace' = trace \o r.events
               /\ dom' = next
               /\ pc' = "mode_system"
               /\ UNCHANGED <<loc, screenshots>>
          ELSE /\ ModeExcept(written, r.events)
               /\ UNCHANGED dom
    /\ UNCHANGED <<entry, command, config, browser, url, exitCode>>

\* Lines 771-788: the System tile; an exception returns False at line 788.
ModeSystem(next) ==
    /\ pc = "mode_system"
    /\ LET r == SystemTile(dom, browser = "open")
       IN IF r.raised
          THEN /\ OpReturn(FALSE, r.events)
               /\ UNCHANGED dom
          ELSE /\ trace' = trace \o r.events
               /\ dom' = IF r.clicked THEN next ELSE dom
               /\ pc' = "mode_control"
               /\ UNCHANGED loc
    /\ UNCHANGED <<entry, command, config, browser, url, screenshots, exitCode>>

\* A set_heating_mode that reports success whatever the scans did.
MutModeControl ==
    /\ pc = "mode_control"
    /\ LET r == ModeControlScan(dom, loc.mode, browser = "open")
       IN OpReturn(TRUE, r.events)
    /\ UNCHANGED <<entry, command, config, browser, url, dom, screenshots, exitCode>>

\* Lines 790-838: the mode control; without one the page structure is
\* logged and False returned.
ModeControl ==
    /\ pc = "mode_control"
    /\ LET r == ModeControlScan(dom, loc.mode, browser = "open")
       IN OpReturn(r.ok, IF r.ok THEN r.events
                         ELSE Append(r.events, Ev("log_page_structure", "", 0, TRUE)))
    /\ UNCHANGED <<entry, command, config, browser, url, dom, screenshots, exitCode>>

\* A command function that runs a failed operation once more.
MutCmdReturn ==
    /\ pc = "cmd_return"
    /\ IF loc.op = "true"
       THEN /\ loc' = [loc EXCEPT !.pending = 0]
            /\ pc' = "leave"
            /\ UNCHANGED trace
       ELSE /\ loc' = [loc EXCEPT !.op = "none"]
            /\ pc' = "mode_start"
            /\ trace' = Append(trace, Ev("operation", command, 0, TRUE))
    /\ UNCHANGED <<entry, command, config, browser, url, dom, screenshots, exitCode>>

\* cli.py lines 32-85: the command's function prints the outcome and
\* returns 0 for True and 1 for False; main returns that from inside the
\* with body.
CmdReturn ==
    /\ pc = "cmd_return"
    /\ loc' = [loc EXCEPT !.pending = IF loc.op = "true" THEN 0 ELSE 1]
    /\ pc' = "leave"
    /\ UNCHANGED <<entry, command, config, browser, url, dom, trace, screenshots, exitCode>>

\* cli.py lines 36-43 and 193-195: print raises (stdout is closed), the
\* command's except clause prints again and raises too; the exception
\* leaves the with body and main's except clause returns 1.
CmdPrintFails ==
    /\ pc = "cmd_return"
    /\ loc' = [loc EXCEPT !.pending = 1]
    /\ pc' = "leave"
    /\ trace' = Append(trace, Ev("scope_exception", "print", 0, FALSE))
    /\ UNCHANGED <<entry, command, config, browser, url, dom, screenshots, exitCode>>

\* ecobee_automation.py lines 985-990: a failed login returns 1 from
\* inside the with body; otherwise get_heating_status is called.
ModuleAfterLogin ==
    /\ entry = "module" /\ pc = "after_login"
    /\ IF loc.login = "false"
       THEN /\ loc' = [loc EXCEPT !.pending = 1]
            /\ pc' = "leave"
            /\ UNCHANGED trace
       ELSE /\ loc' = [loc EXCEPT !.device =
                          IF config.thermostat_name = "absent" THEN "Main Floor"
                          ELSE config.thermostat_name]
            /\ pc' = "status_start"
            /\ trace' = Append(trace, Ev("operation", "status", 0, TRUE))
    /\ UNCHANGED <<entry, command, config, browser, url, dom, screenshots, exitCode>>

\* Lines 739-742 and 1000-1002: an exception inside get_heating_status is
\* raised again as EcobeeAutomationError; it leaves the with body and main
\* returns 1.
StatusExcept(written, events) ==
    /\ trace' = trace \o events \o <<ShotEv("status_error", written),
                                     Ev("op_raise", "get_heating_status", 0, FALSE)>>
    /\ screenshots' = ShotsAfter("status_error", written)
    /\ loc' = [loc EXCEPT !.op = "raised", !.pending = 1]
    /\ pc' = "leave"

\* Lines 689-696.
StatusStart(page, written) ==
    /\ pc = "status_start"
    /\ IF browser # "open"
       THEN /\ StatusExcept(written, <<>>)
            /\ UNCHANGED <<url, dom>>
       ELSE /\ IF url # "devices"
               THEN /\ url' = "devices"
                    /\ dom' = page
                    /\ trace' = Append(trace, Ev("get", "devices", 0, TRUE))
               ELSE UNCHANGED <<url, dom, trace>>
            /\ pc' = "status_select"
            /\ UNCHANGED <<loc, screenshots>>
    /\ UNCHANGED <<entry, command, config, browser, exitCode>>

\* Lines 698-700.
StatusSelect(next, written) ==
    /\ pc = "status_select"
    /\ LET r == SelectThermostat(dom, loc.device, browser = "open")
       IN IF r.ok
          THEN /\ trace' = trace \o r.events
               /\ dom' = next
               /\ pc' = "status_system"
               /\ UNCHANGED <<loc, screenshots>>
          ELSE /\ StatusExcept(written, r.events)
               /\ UNCHANGED dom
    /\ UNCHANGED <<entry, command, config, browser, url, exitCode>>

\* Lines 702-720: the System tile; an exception is logged and ignored.
StatusSystem(next) ==
    /\ pc = "status_system"
    /\ LET r == SystemTile(dom, browser = "open")
       IN /\ trace' = trace \o r.events
          /\ dom' = IF r.clicked THEN next ELSE dom
    /\ pc' = "status_read"
    /\ UNCHANGED <<entry, command, config, browser, url, loc, screenshots, exitCode>>

\* Line 727: the lower-cased text of the page body contains w.
BodyHas(d, w) == \E i \in 1..Len(d) : d[i].displayed /\ TextHasNoCase(d[i], w)

\* A status reader that infers is_heating from the mode it read.
MutHeatingStatusOf(m) ==
    [current_temp |-> "None", target_temp |-> "None", mode |-> m,
     is_heating |-> IF m = "None" THEN "None" ELSE "true"]

\* Lines 30-36 and 722-731: HeatingStatus() has every field None; only the
\* mode is assigned afterwards.
HeatingStatusOf(m) ==
    [current_temp |-> "None", target_temp |-> "None", mode |-> m, is_heating |-> "None"]

\* Lines 722-737 and 990-998: the status holds the mode read from the page
\* text and nothing else; main logs it, leaves the with body and returns 0.
StatusRead ==
    /\ pc = "status_read"
    /\ LET m == IF browser # "open" THEN "None"
                ELSE IF BodyHas(dom, "aux") THEN "aux"
                ELSE IF BodyHas(dom, "heat") THEN "heat"
                ELSE "None"
       IN /\ loc' = [loc EXCEPT !.op = "returned", !.pending = 0,
                                !.status = HeatingStatusOf(m)]
          /\ trace' = Append(trace, Ev("status_read", m, 0, TRUE))
    /\ pc' = "leave"
    /\ UNCHANGED <<entry, command, config, browser, url, dom, screenshots, exitCode>>

\* close that forgets to quit the driver.
MutBrowserAfterClose == browser

\* Lines 939-946: close quits the driver if there is one.
BrowserAfterClose == IF browser = "none" THEN "none" ELSE "closed"

\* Lines 953-955 and the return statements of the two mains: leaving the
\* with body calls __exit__, which calls close; then main returns.
LeaveScope ==
    /\ pc = "leave"
    /\ browser' = BrowserAfterClose
    /\ exitCode' = loc.pending
    /\ pc' = "exited"
    /\ trace' = trace \o (IF browser' # browser THEN <<Ev("quit", "", 0, TRUE)>> ELSE <<>>)
                      \o <<Ev("exit", "", loc.pending, loc.pending = 0)>>
    /\ UNCHANGED <<entry, command, config, url, dom, loc, screenshots>>

(***************************************************************************)
(* The specifications of a run                                             *)
(***************************************************************************)
\* A catalogue of login pages: single-step, two-step with a hidden password
\* field, two-step with a separate password page, no button, nothing.
LoginCatalogue ==
    { <<Input("email", "email", TRUE), Input("password", "password", TRUE),
        Button("button", "Log In", TRUE, TRUE)>>,
      <<Input("email", "email", TRUE), Input("password", "password", FALSE),
        Button("submit", "Continue", TRUE, TRUE)>>,
      <<Input("text", "username", TRUE), Button("submit", "Continue", TRUE, TRUE)>>,
      <<Input("email", "email", TRUE)>>,
      <<>> }

\* Every login page of at most MaxElems elements.
AllLoginPages == UNION {[1..n -> LoginElems] : n \in 0..MaxElems}

\* A catalogue of devices pages.
DevicesCatalogue ==
    { <<Anchor("Main Floor", TRUE), Anchor("Upstairs", TRUE)>>,
      <<Div("Upstairs", "device-card", TRUE, FALSE, TRUE)>>,
      <<>> }

\* A catalogue of pages of one thermostat.
ThermostatCatalogue ==
    { <<Div("System", "tile", TRUE, TRUE, TRUE)>>,
      <<Div("SYSTEM", "tile", TRUE, FALSE, FALSE)>>,
      <<Div("Settings", "tile", TRUE, TRUE, TRUE)>> }

\* A catalogue of system pages.
SystemCatalogue ==
    { <<Label("Heat", 0, TRUE), Label("Aux", 0, TRUE)>>,
      <<Label("Auxiliary Heat", 2, FALSE), Radio(TRUE)>>,
      <<Div("Heat", "", TRUE, TRUE, TRUE)>>,
      <<>> }

\* A step of the run; the server is not involved.
Run(A) == A /\ UNCHANGED serverVars

\* The steps both entry points share, with the login page drawn from
\* loginPages.
NextCommon(loginPages) ==
    \/ Run(SetupDriverOk)
    \/ Run(SetupDriverFailsEarly)
    \/ Run(SetupDriverFailsLate)
    \/ Run(BrowserCrash)
    \/ pc = "login" /\ \E page \in loginPages, written \in BOOLEAN :
                           Run(LoginStart(page, written))
    \/ \E written \in BOOLEAN : Run(LoginUsername(written))
    \/ \E written \in BOOLEAN : Run(LoginProbe(written))
    \/ pc = "login_branch" /\ \E next \in AfterContinue(dom), written \in BOOLEAN :
                                  Run(LoginContinue(next, written))
    \/ \E written \in BOOLEAN : Run(LoginPassword(written))
    \/ \E redirected \in BOOLEAN, written \in BOOLEAN : Run(LoginSubmit(redirected, written))
    \/ \E written \in BOOLEAN : Run(LoginVerify(written))
    \/ Run(LeaveScope)

\* The steps of cli.main and of the command it runs.
NextCli(devicesPages, thermostatPages, systemPages) ==
    \/ Run(CliNoCommand)
    \/ Run(CliCheckCredentials)
    \/ Run(CliAfterLogin)
    \/ pc = "mode_start" /\ \E page \in devicesPages, written \in BOOLEAN :
                                Run(ModeStart(page, written))
    \/ pc = "mode_select" /\ \E next \in thermostatPages, written \in BOOLEAN :
                                 Run(ModeSelect(next, written))
    \/ pc = "mode_system" /\ \E next \in systemPages : Run(ModeSystem(next))
    \/ Run(ModeControl)
    \/ Run(CmdReturn)
    \/ Run(CmdPrintFails)

\* The steps of ecobee_automation.main and of get_heating_status.
NextModule(devicesPages, thermostatPages, systemPages) ==
    \/ Run(ModuleCheckRequired)
    \/ Run(ModuleAfterLogin)
    \/ pc = "status_start" /\ \E page \in devicesPages, written \in BOOLEAN :
                                  Run(StatusStart(page, written))
    \/ pc = "status_select" /\ \E next \in thermostatPages, written \in BOOLEAN :
                                   Run(StatusSelect(next, written))
    \/ pc = "status_system" /\ \E next \in systemPages : Run(StatusSystem(next))
    \/ Run(StatusRead)

\* Every run of either entry point, on the catalogue pages.
InitRunAll ==
    ServerIdle /\ InitRun({"cli", "module"}, RouteCommands, {"absent", "Upstairs"})

NextRun ==
    \/ NextCommon(LoginCatalogue)
    \/ NextCli(DevicesCatalogue, ThermostatCatalogue, SystemCatalogue)
    \/ NextModule(DevicesCatalogue, ThermostatCatalogue, SystemCatalogue)

SpecRun == InitRunAll /\ [][NextRun]_vars

\* The runs of cli.main for one command, on every login page.
InitLogin ==
    ServerIdle /\ InitRun({"cli"}, {"main-floor-heat"}, {"absent"})

NextLogin ==
    \/ NextCommon(AllLoginPages)
    \/ NextCli(DevicesCatalogue, ThermostatCatalogue, SystemCatalogue)

SpecLogin == InitLogin /\ [][NextLogin]_vars

\* The elements devices pages are built from: links, texts and cards that
\* name a device, clickable or not, shown or hidden.
DeviceElems ==
    { Anchor("Main Floor", TRUE),
      Anchor("Main Floor", FALSE),
      Anchor("Upstairs", TRUE),
      Div("Main Floor", "", TRUE, FALSE, TRUE),
      Div("Main Floor", "", TRUE, FALSE, FALSE),
      Div("Upstairs", "", FALSE, TRUE, TRUE),
      Div("main floor", "device-card", TRUE, TRUE, TRUE),
      Div("Aux Upstairs", "card", TRUE, TRUE, TRUE),
      Div("Settings", "tile", TRUE, TRUE, TRUE) }

\* Every devices page of at most MaxDevElems elements.
AllDevicesPages == UNION {[1..n -> DeviceElems] : n \in 0..MaxDevElems}

\* The elements system pages are built from: mode labels with and without
\* a linked control, controls, and free text.
ModeElems ==
    { Label("Heat", 0, TRUE),
      Label("Aux", 0, TRUE),
      Label("Auxiliary Heat", 0, TRUE),
      Label("Heat", 2, FALSE),
      Label("Aux", 0, FALSE),
      Label("Cool", 0, TRUE),
      Radio(TRUE),
      Radio(FALSE),
      Div("Heat", "", TRUE, TRUE, TRUE),
      Div("Aux", "", TRUE, FALSE, TRUE),
      Div("Auxiliary Heat", "", FALSE, TRUE, TRUE) }

\* Every system page of at most MaxModeElems elements.
AllSystemPages == UNION {[1..n -> ModeElems] : n \in 0..MaxModeElems}

\* The modes and devices set_heating_mode is called with.
CallModes == {"aux", "heat", "Heat", "Cool"}

CallDevices == {"Main Floor", "Upstairs"}

\* The thermostat pages of a direct call: the catalogue, and pages that show
\* the current mode and no System tile.
ThermostatPages ==
    ThermostatCatalogue
    \cup { <<Div("Settings", "tile", TRUE, TRUE, TRUE), Div("Heat", "", TRUE, TRUE, TRUE)>>,
            <<Label("Aux", 0, TRUE)>> }

\* A call set_heating_mode(mode, device) on a session that is logged in.
InitMode ==
    /\ ServerIdle
    /\ entry = "call"
    /\ command = NoCommand
    /\ config \in [username : {"set"}, password : {"set"},
                   screenshot_on_error : BOOLEAN, thermostat_name : {"absent"}]
    /\ pc = "mode_start"
    /\ browser = "open"
    /\ url = "portal"
    /\ dom = <<>>
    /\ \E mode \in CallModes, device \in CallDevices :
          loc = [NoLocals EXCEPT !.login = "true", !.mode = mode, !.device = device]
    /\ trace = <<>>
    /\ screenshots = {}
    /\ exitCode = -1

NextMode ==
    \/ pc = "mode_start" /\ \E page \in AllDevicesPages, written \in BOOLEAN :
                                Run(ModeStart(page, written))
    \/ pc = "mode_select" /\ \E next \in ThermostatPages, written \in BOOLEAN :
                                 Run(ModeSelect(next, written))
    \/ pc = "mode_system" /\ \E next \in AllSystemPages : Run(ModeSystem(next))
    \/ Run(ModeControl)
    \/ Run(BrowserCrash)

SpecMode == InitMode /\ [][NextMode]_vars

(***************************************************************************)
(* Claims about a run, checked under SpecRun and SpecLogin.                *)
(***************************************************************************)
\* The places of the history where `op` happened.
At(op) == {i \in DOMAIN trace : trace[i].op = op}

AtArg(op, arg) == {i \in DOMAIN trace : trace[i].op = op /\ trace[i].arg = arg}

\* What a run does to the portal after login: navigation to the devices
\* page, device selection, system surface, mode control, status read.
DeviceOps == {"operation", "select_click", "system_click", "mode_click", "status_read"}

\* What login does to the portal.
LoginOps == {"find_input", "find_submit", "fill", "js_click", "click", "current_url",
             "grace_wait", "login_return"}

\* C4: a run that entered the session scope (setup_driver completed) has
\* quit the driver by the time main returns, whatever the exit path: login
\* failure, operation true, operation false, an exception leaving the with
\* body.  The quit comes after everything the run did in the scope and
\* before the return; no such run ends with the browser open.
C4_TeardownOnEveryExit ==
    (pc = "exited" /\ At("enter_scope") # {}) =>
        /\ browser = "closed"
        /\ \E q \in At("quit") :
              /\ \A i \in DOMAIN trace :
                    trace[i].op \in LoginOps \cup DeviceOps \cup {"enter_scope", "scope_exception", "op_raise", "op_return"}
                        => i < q
              /\ \A x \in At("exit") : q < x

\* C4 witness: a run whose operation raised out of the with body has
\* returned.
C4_Witness ==
    /\ pc = "exited"
    /\ At("op_raise") # {}
    /\ browser = "closed"

\* C5: also when setup_driver fails after the browser was started, the
\* browser is released before the run reports failure: no run has returned
\* with a browser it started still open.
C5_PartialSetupReleased ==
    (pc = "exited" /\ At("chrome") # {}) => browser # "open"

\* C6: once login has returned False the run has done and does nothing to a
\* device (no devices page, no selection, no system surface, no mode
\* control, no status read), goes straight to the exit, and exits non-zero.
C6_LoginFailureShortCircuits ==
    loc.login = "false" =>
        /\ \A i \in DOMAIN trace : trace[i].op \notin DeviceOps
        /\ AtArg("get", "devices") = {}
        /\ pc \in {"after_login", "leave", "exited"}
        /\ loc.op = "none"
        /\ (pc = "exited" => exitCode # 0 /\ exitCode # -1)

\* C6 witness: a run whose login failed at a stage has exited.
C6_Witness ==
    /\ pc = "exited"
    /\ loc.login = "false"
    /\ At("screenshot") # {}
    /\ exitCode = 1

\* C7: a run calls at most one operation, for the device and the mode of
\* its command (or one status read); the operation starts only after login
\* returned True, which comes after the session was created; once main has
\* returned the driver was quit after the operation, whatever its outcome.
C7_RunOrder ==
    /\ Cardinality(At("operation")) <= 1
    /\ Cardinality(At("login_return")) <= 1
    /\ Cardinality(At("op_return") \cup At("op_raise") \cup At("status_read")) <= 1
    /\ \A o \in At("operation") :
          /\ \E l \in At("login_return") : l < o /\ trace[l].ok
          /\ entry = "cli" =>
                /\ trace[o].arg = command
                /\ loc.mode = CommandMode(command)
                /\ loc.device = CommandDevice(command)
          /\ \A i \in DOMAIN trace :
                (trace[i].op \in DeviceOps \cup {"op_return", "op_raise"}
                    \/ (trace[i].op = "get" /\ trace[i].arg = "devices"))
                => o <= i
          /\ pc = "exited" => \E q \in At("quit") : o < q
    /\ \A l \in At("login_return") : \E e \in At("enter_scope") : e < l
    /\ \A i \in DOMAIN trace :
          trace[i].op \in LoginOps => \E e \in At("enter_scope") : e < i
    /\ \A q \in At("quit") : \A i \in DOMAIN trace : i > q => trace[i].op = "exit"

\* C7 witness: a run completed an operation that failed and has returned.
C7_Witness ==
    /\ pc = "exited"
    /\ loc.op = "false"
    /\ At("quit") # {}
    /\ At("select_click") # {}

\* C8: when the probe found a displayed password field, login never looks
\* for a continue control and never clicks by script: between filling the
\* username and filling the password there is only the probe and the
\* password lookup.
C8_SingleStepNoContinue ==
    \A p \in AtArg("find_input", "probe") :
        trace[p].ok =>
            /\ At("js_click") = {}
            /\ AtArg("find_submit", "continue") = {}
            /\ \A u \in AtArg("fill", "username") : \A i \in DOMAIN trace :
                  (u < i /\ (AtArg("fill", "password") = {}
                             \/ \E w \in AtArg("fill", "password") : i < w))
                  => trace[i].op \notin {"find_submit", "js_click", "click"}

\* C8 witness: the single-step branch was taken and the password typed.
C8_Witness ==
    /\ \E p \in AtArg("find_input", "probe") : trace[p].ok
    /\ AtArg("fill", "password") # {}
    /\ loc.login = "true"

\* C9: when the probe found no displayed password field, the next thing
\* login does is look for the continue control; a control found is
\* activated by a script-level click and by nothing else, and the password
\* lookup that follows has a timeout strictly longer than the probe's.  No
\* password is looked for or typed on this branch without that click.
C9_TwoStepBranch ==
    \A p \in AtArg("find_input", "probe") :
        ~trace[p].ok =>
            /\ Len(trace) > p =>
                  /\ trace[p + 1].op = "find_submit"
                  /\ trace[p + 1].arg = "continue"
            /\ (Len(trace) > p + 1 /\ trace[p + 1].ok) =>
                  /\ trace[p + 2].op = "js_click"
                  /\ trace[p + 2].arg = "continue"
            /\ (Len(trace) > p + 2 /\ trace[p + 1].ok) =>
                  /\ trace[p + 3].op = "find_input"
                  /\ trace[p + 3].arg = "password"
                  /\ trace[p + 3].n > trace[p].n
            /\ \A i \in AtArg("find_input", "password") \cup AtArg("fill", "password") :
                  \E c \in At("js_click") : p < c /\ c < i

\* C9 witness: two-step login, password found after the click, login done.
C9_Witness ==
    /\ \E p \in AtArg("find_input", "probe") : ~trace[p].ok
    /\ At("js_click") # {}
    /\ \E i \in AtArg("find_input", "password") : trace[i].ok
    /\ loc.login = "true"

\* The screenshot tag of each stage that locates an element.
StageTag(ev) ==
    IF ev.op = "find_input" /\ ev.arg = "username" THEN "username_field_not_found"
    ELSE IF ev.op = "find_input" /\ ev.arg = "password" THEN "password_field_not_found"
    ELSE IF ev.op = "find_submit" /\ ev.arg = "continue" THEN "continue_button_not_found"
    ELSE "submit_button_not_found"

\* The lookups of the username field, the continue control, the password
\* field and the submit control (the probe is a test, not a stage).
StageLookups ==
    {i \in DOMAIN trace :
        \/ trace[i].op = "find_input" /\ trace[i].arg \in {"username", "password"}
        \/ trace[i].op = "find_submit"}

\* C10: when the username field, the continue control, the password field
\* or the submit control is not found, login asks for a screenshot tagged
\* with that stage, returns False and does nothing else: no later stage
\* runs.  The file is there whenever screenshots are on and the write went
\* through.  login never returns True after such a stage.
C10_LoginFailsClosed ==
    \A i \in StageLookups :
        ~trace[i].ok =>
            /\ Len(trace) >= i + 2
            /\ trace[i + 1].op = "screenshot"
            /\ trace[i + 1].arg = StageTag(trace[i])
            /\ trace[i + 1].ok => StageTag(trace[i]) \in screenshots
            /\ trace[i + 2].op = "login_return"
            /\ ~trace[i + 2].ok
            /\ loc.login = "false"
            /\ \A j \in DOMAIN trace : j > i + 2 => trace[j].op \notin LoginOps
            /\ \A j \in At("login_return") : ~trace[j].ok

\* C10 witness: the two-step branch clicked continue, no password field
\* came, and the screenshot of that stage was written.
C10_Witness ==
    /\ At("js_click") # {}
    /\ "password_field_not_found" \in screenshots
    /\ loc.login = "false"
    /\ pc = "exited"

(***************************************************************************)
(* Claims about the locators, checked under SpecLogin.                     *)
(***************************************************************************)
\* The keyword lists login calls _find_input_field with.
RoleKeywords == {KwUsername, KwProbe, KwPassword}

\* Page d holds an input whose type is exactly `type`.
HasTypeExact(d, type) == \E i \in 1..Len(d) : IsTypeExact(d[i], type)

\* C11: on every login page, for each role's keywords: when the page holds
\* an input of the role's exact type (email for the username role, password
\* for the password role), _find_input_field returns an input of that type,
\* wherever the inputs that match by attribute substring stand; a result
\* that is not type-exact means the page holds no type-exact input.  The
\* field login typed the username into is the type-exact one.
C11_TypeExactFirst ==
    (pc \in {"login_username", "login_probe", "login_branch"} /\ browser = "open") =>
        /\ \A kw \in RoleKeywords : \A type \in {"email", "password"} :
              (InSeq(type, kw) /\ HasTypeExact(dom, type)) =>
                  LET f == FindInputField(dom, kw, TRUE)
                  IN f > 0 /\ \E t \in {"email", "password"} : InSeq(t, kw) /\ IsTypeExact(dom[f], t)
        /\ \A u \in AtArg("fill", "username") :
              HasTypeExact(dom, "email") => IsTypeExact(dom[trace[u].n], "email")

\* C11 witness: the page's first input matches the username keywords by its
\* name only, the second is of type email, and login typed into the second.
C11_Witness ==
    /\ pc = "login_probe"
    /\ Len(dom) >= 2
    /\ ~IsTypeExact(dom[1], "email") /\ MatchesKeyword(dom[1], KwUsername)
    /\ IsTypeExact(dom[2], "email")
    /\ \E u \in AtArg("fill", "username") : trace[u].n = 2

\* The lookups login made through the two locators, the probe included.
Lookups == At("find_input") \cup At("find_submit")

\* C12: a lookup that found nothing returned None to login: what follows
\* it is login's own branch on the missing element (the stage's screenshot,
\* or the continue lookup after the probe), never login's except clause.
\* Both locators yield a handle of the page or None on every page, also
\* with the session lost.
C12_NotFoundIsNotRaised ==
    /\ \A i \in Lookups :
          (~trace[i].ok /\ Len(trace) > i /\ trace[i].arg # "probe") =>
              /\ trace[i + 1].op = "screenshot"
              /\ trace[i + 1].arg # "login_error"
    /\ \A i \in AtArg("find_input", "probe") :
          (~trace[i].ok /\ Len(trace) > i) => trace[i + 1].op = "find_submit"
    /\ pc \in {"login_username", "login_probe", "login_branch", "login_password",
               "login_submit"} =>
          \A sessionOk \in BOOLEAN :
              /\ FindSubmitButton(dom, sessionOk) \in 0..Len(dom)
              /\ \A kw \in RoleKeywords : FindInputField(dom, kw, sessionOk) \in 0..Len(dom)

\* C12 witness: a page without any input or button; the username lookup
\* exhausted its cascade and login took its not-found branch.
C12_Witness ==
    /\ \E i \in AtArg("find_input", "username") : ~trace[i].ok
    /\ \A i \in 1..Len(dom) : dom[i].tag # "input"
    /\ "username_field_not_found" \in screenshots
    /\ loc.login = "false"

(***************************************************************************)
(* Claims about select_thermostat and set_heating_mode, checked under      *)
(* SpecMode.                                                               *)
(***************************************************************************)
\* The clicks that went through.
Done(op) == {i \in At(op) : trace[i].ok}

\* C13: once strategy (a) of select_thermostat matched a link, strategies
\* (b) and (c) are not used: no element is clicked as a text match or as a
\* card after a link was clicked.
C13_LinkMatchEndsSearch ==
    AtArg("select_click", "link") # {} =>
        /\ AtArg("select_click", "text") = {}
        /\ AtArg("select_click", "card") = {}

\* set_heating_mode has opened the devices page and select_thermostat has
\* not clicked anything on it: dom is still that page.
OnDevicesPage ==
    /\ AtArg("get", "devices") # {}
    /\ Done("select_click") = {}
    /\ url = "devices"

\* The device name occurs in no element's text, in any case.
NameAbsent(d, name) == \A i \in 1..Len(d) : ~TextHasNoCase(d[i], name)

\* C14: when the device's name occurs nowhere on the devices page,
\* select_thermostat clicks nothing and returns False, and set_heating_mode
\* asks for a screenshot tagged mode_change_error and returns False without
\* touching the system surface or a mode control.  The file is there when
\* screenshots are on and the write went through.
C14_DeviceAbsentFails ==
    (pc = "cmd_return" /\ OnDevicesPage /\ NameAbsent(dom, loc.device)) =>
        /\ At("select_click") = {}
        /\ At("system_click") = {}
        /\ At("mode_click") = {}
        /\ loc.op = "false"
        /\ Len(trace) >= 3
        /\ trace[Len(trace)].op = "op_return" /\ ~trace[Len(trace)].ok
        /\ trace[Len(trace) - 1].op = "screenshot"
        /\ trace[Len(trace) - 1].arg = "mode_change_error"
        /\ trace[Len(trace) - 1].ok = ("mode_change_error" \in screenshots)
        /\ trace[Len(trace) - 1].ok => config.screenshot_on_error

\* C14 witness: a devices page that shows another device only; the call has
\* returned False and the screenshot is written.
C14_Witness ==
    /\ pc = "cmd_return"
    /\ OnDevicesPage
    /\ Len(dom) > 0
    /\ NameAbsent(dom, loc.device)
    /\ "mode_change_error" \in screenshots
    /\ loc.op = "false"

\* C15: when set_heating_mode has returned True, the element whose click
\* went through names the requested mode and not the other one: for heat
\* its text does not name auxiliary heat, for aux it does.
C15_ActivatedControlIsOfMode ==
    (pc = "cmd_return" /\ loc.op = "true") =>
        \A i \in Done("mode_click") :
            trace[i].arg \in {"label", "text"} =>
                (TextHasNoCase(dom[trace[i].n], "aux") <=> loc.mode = "aux")

\* C16: set_heating_mode returns True iff a click on a mode control went
\* through, and then that click is the last thing it did: exactly one click
\* went through, nothing is clicked or read after it.  A call that got
\* past the device or the system surface without such a click returns
\* False.
C16_TrueIffOneActivation ==
    /\ Cardinality(Done("mode_click")) <= 1
    /\ At("status_read") = {}
    /\ \A r \in At("op_return") :
          /\ trace[r].ok <=> Done("mode_click") # {}
          /\ trace[r].ok => (r > 1 /\ trace[r - 1].op = "mode_click" /\ trace[r - 1].ok)
          /\ r = Len(trace)
    /\ \A i \in Done("mode_click") :
          /\ trace[i].arg \in {"label", "radio", "text"}
          /\ i < Len(trace) => (i + 1 = Len(trace) /\ trace[i + 1].op = "op_return"
                                /\ trace[i + 1].ok)
    /\ (pc = "cmd_return" /\ Done("mode_click") = {}) => loc.op = "false"

\* C16 witness, True: the label's click raised, the control it names was
\* clicked instead, and the call returned True.
C16_Witness ==
    /\ pc = "cmd_return"
    /\ loc.op = "true"
    /\ \E i \in AtArg("mode_click", "label") : ~trace[i].ok
    /\ Done("mode_click") \subseteq AtArg("mode_click", "radio")

\* C17: when neither scan clicked a control, set_heating_mode returns False
\* after both the page-structure dump and, with screenshots switched on, a
\* screenshot request.
C17_NoControlScreenshotAndDump ==
    (pc = "cmd_return" /\ At("log_page_structure") # {} /\ config.screenshot_on_error) =>
        /\ loc.op = "false"
        /\ At("screenshot") # {}

\* The calls a history holds that went to the browser session: navigation,
\* clicks, and a screenshot that was written (driver.save_screenshot).
BrowserCalls ==
    {i \in DOMAIN trace :
        \/ trace[i].op \in {"get", "select_click", "system_click", "mode_click"}
        \/ trace[i].op = "screenshot" /\ trace[i].ok}

\* C19: a call with a mode other than aux and heat returns False and
\* nothing in it went to the browser session.
C19_InvalidModeNoBrowserCall ==
    (entry = "call" /\ LowerStr(loc.mode) \notin {"aux", "heat"}) =>
        /\ BrowserCalls = {}
        /\ pc = "cmd_return" => loc.op = "false"

(***************************************************************************)
(* Claims about screenshots and exceptions of a run, checked under SpecRun.*)
(***************************************************************************)
\* The tags of the screenshots a failing stage of login asks for.
LoginFailTags ==
    {"username_field_not_found", "continue_button_not_found", "password_field_not_found",
     "submit_button_not_found", "login_error"}

\* The run of the scenario: single-step login, redirect to the portal seen,
\* the device clicked, a label of the mode clicked.
HappyPath ==
    /\ \E p \in AtArg("find_input", "probe") : trace[p].ok
    /\ AtArg("current_url", "portal") # {}
    /\ Done("select_click") # {}
    /\ \E i \in Done("mode_click") : trace[i].arg = "label"

C20_RaiseOnlyOnSessionLoss ==
    (pc = "leave" /\ At("op_raise") # {}) => browser = "lost"

\* What follows a screenshot request tagged `tag`: the result of the stage
\* that asked for it.
AfterShot(tag) ==
    IF tag \in LoginFailTags THEN [op |-> "login_return", ok |-> FALSE]
    ELSE IF tag = "mode_change_error" THEN [op |-> "op_return", ok |-> FALSE]
    ELSE IF tag = "status_error" THEN [op |-> "op_raise", ok |-> FALSE]
    ELSE [op |-> "grace_wait", ok |-> TRUE]

\* C22: no exception comes out of _take_screenshot: whether the file was
\* written or not, the request is followed by the same result of the stage
\* that asked for it (login returning False, set_heating_mode returning
\* False, ...), login never raises, and a run whose login failed exits 1.
C22_ScreenshotNeverEscalates ==
    /\ \A i \in At("screenshot") :
          Len(trace) > i =>
              /\ trace[i + 1].op = AfterShot(trace[i].arg).op
              /\ trace[i + 1].ok = AfterShot(trace[i].arg).ok
    /\ loc.login # "raised"
    /\ \A x \in At("scope_exception") : trace[x].arg = "print"
    /\ \A x \in At("op_raise") : trace[x].arg = "get_heating_status"
    /\ (pc = "exited" /\ loc.login = "false") => exitCode = 1

\* C22 witness: screenshots are on, the write of a login stage's screenshot
\* failed, login returned False all the same and the run exited 1.
C22_Witness ==
    /\ pc = "exited"
    /\ config.screenshot_on_error
    /\ \E i \in At("screenshot") :
          /\ ~trace[i].ok
          /\ trace[i].arg \in LoginFailTags \ {"login_error"}
          /\ trace[i + 1].op = "login_return"
    /\ screenshots = {}
    /\ loc.login = "false"
    /\ exitCode = 1

\* C23: in the status get_heating_status returned (and in the one every
\* run holds before), is_heating is None whenever current_temp or
\* target_temp is None, whether the mode was read or not.
C23_IsHeatingNoneWithoutTemps ==
    (entry \in {"cli", "module"}) =>
        ((loc.status.current_temp = "None" \/ loc.status.target_temp = "None")
            => loc.status.is_heating = "None")

\* C23 witness: get_heating_status returned a status whose mode was read
\* from the page and whose temperatures are absent.
C23_Witness ==
    /\ entry = "module"
    /\ loc.op = "returned"
    /\ At("status_read") # {}
    /\ loc.status.mode \in {"aux", "heat"}
    /\ loc.status.current_temp = "None"
    /\ loc.status.is_heating = "None"

(***************************************************************************)
(* A request served end to end: run_cli_command and the CLI child it runs  *)
(***************************************************************************)
\* api_server.py lines 45-52 and cli.py lines 88-169: subprocess.run starts
\* `python cli.py <command>`; the child starts cli.main with the command of
\* the request and the configuration it finds on disk.
ChildStart(r) ==
    /\ reqPc[r] = "try"
    /\ reqPc' = [reqPc EXCEPT ![r] = "subprocess"]
    /\ reqSpawned' = [reqSpawned EXCEPT ![r] = TRUE]
    /\ UNCHANGED <<automation_lock, reqCommand, reqResult, reqInFlightAtCall>>
    /\ entry' = "cli"
    /\ command' = reqCommand[r]
    /\ config' \in [username : Credentials, password : Credentials,
                    screenshot_on_error : BOOLEAN, thermostat_name : {"absent"}]
    /\ pc' = "main"
    /\ browser' = "none"
    /\ url' = "blank"
    /\ dom' = <<>>
    /\ loc' = NoLocals
    /\ trace' = <<>>
    /\ screenshots' = {}
    /\ exitCode' = -1

\* api_server.py lines 45-63: the child has ended; subprocess.run returns
\* its return code, which is the value cli.main returned.
ChildExit(r) ==
    /\ pc = "exited"
    /\ RunCliCommandChildExit(r, exitCode)

\* A step of the child: it runs only while subprocess.run waits for it (a
\* timeout kills it).  Its standard output is the pipe subprocess.run reads
\* until the child ends, so the prints of the command functions complete.
Child(A) == Running # {} /\ Run(A)

ChildStep ==
    \/ Child(SetupDriverOk)
    \/ Child(SetupDriverFailsEarly)
    \/ Child(SetupDriverFailsLate)
    \/ Child(BrowserCrash)
    \/ pc = "login" /\ \E page \in LoginCatalogue, written \in BOOLEAN :
                           Child(LoginStart(page, written))
    \/ \E written \in BOOLEAN : Child(LoginUsername(written))
    \/ \E written \in BOOLEAN : Child(LoginProbe(written))
    \/ pc = "login_branch" /\ \E next \in AfterContinue(dom), written \in BOOLEAN :
                                  Child(LoginContinue(next, written))
    \/ \E written \in BOOLEAN : Child(LoginPassword(written))
    \/ \E redirected \in BOOLEAN, written \in BOOLEAN :
           Child(LoginSubmit(redirected, written))
    \/ \E written \in BOOLEAN : Child(LoginVerify(written))
    \/ Child(LeaveScope)
    \/ Child(CliCheckCredentials)
    \/ Child(CliAfterLogin)
    \/ pc = "mode_start" /\ \E page \in DevicesCatalogue, written \in BOOLEAN :
                                Child(ModeStart(page, written))
    \/ pc = "mode_select" /\ \E next \in ThermostatCatalogue, written \in BOOLEAN :
                                 Child(ModeSelect(next, written))
    \/ pc = "mode_system" /\ \E next \in SystemCatalogue : Child(ModeSystem(next))
    \/ Child(ModeControl)
    \/ Child(CmdReturn)

\* The request the end-to-end runs follow.
ApiCaller == 1

NextApi ==
    \/ \E cmd \in RouteCommands : RunCliCommandAcquire(ApiCaller, cmd)
    \/ ChildStart(ApiCaller)
    \/ RunCliCommandSpawnFails(ApiCaller)
    \/ ChildStep
    \/ ChildExit(ApiCaller)
    \/ RunCliCommandTimeout(ApiCaller)
    \/ RunCliCommandRelease(ApiCaller)

SpecApi == InitServer /\ [][NextApi]_vars

(***************************************************************************)
(* Claims about a request served end to end, checked under SpecApi.        *)
(***************************************************************************)
\* The run of the child ended with something other than a True result: the
\* login failed, the operation returned False, or an exception was raised.
ChildFailed ==
    \/ loc.login \in {"false", "raised"}
    \/ loc.op \in {"false", "raised"}
    \/ At("scope_exception") # {}

\* C24: the outcome of a set-mode command is reported faithfully end to
\* end: the CLI child exits 0 iff set_heating_mode returned True, the API
\* answers success=true with status 200 iff the child's exit code was 0,
\* and a False result, an exception or a login failure of the child (and a
\* timeout, a spawn failure or a busy lock) always yields success=false.
C24_OutcomeReportedEndToEnd ==
    /\ pc = "exited" => (exitCode = 0 <=> loc.op = "true")
    /\ entry = "cli" => \A r \in Requests :
          /\ reqResult[r].kind = "exit" =>
                /\ pc = "exited"
                /\ reqResult[r].return_code = exitCode
                /\ reqResult[r].success <=> (exitCode = 0)
                /\ reqResult[r].success <=> (reqResult[r].status = 200)
          /\ reqResult[r] # NoResult =>
                /\ reqResult[r].success => (reqResult[r].kind = "exit" /\ loc.op = "true")
                /\ ChildFailed => (~reqResult[r].success /\ reqResult[r].status # 200)

\* C24 witness: one request whose child changed the mode and exited 0 was
\* answered success=true with 200, after the lock was released.
C24_Witness ==
    /\ reqPc[ApiCaller] = "returned"
    /\ reqResult[ApiCaller] = ExitResult(0)
    /\ reqResult[ApiCaller].success /\ reqResult[ApiCaller].status = 200
    /\ loc.op = "true"
    /\ exitCode = 0
    /\ ~automation_lock

\* C24 second case reached: a child whose operation returned False was
\* answered success=false with 500.
C24_FalseReported ==
    /\ reqPc[ApiCaller] = "returned"
    /\ entry = "cli"
    /\ loc.op = "false"
    /\ reqResult[ApiCaller] = ExitResult(1)

(***************************************************************************)
(* Claims about the order of login's stages, checked under SpecLogin.      *)
(***************************************************************************)
\* The stage an entry of the history enters: 1 the username was typed
\* (USERNAME_FILLED), 2 the password probe answered (PASSWORD_VISIBLE or
\* CONTINUE_REQUIRED), 3 the continue control was activated, 4 the password
\* was typed (PASSWORD_FILLED), 5 the submit control was activated
\* (SUBMITTED), 6 the location was read (VERIFIED or SUSPECT); 0 otherwise.
LoginStage(e) ==
    IF e.op = "fill" /\ e.arg = "username" THEN 1
    ELSE IF e.op = "find_input" /\ e.arg = "probe" THEN 2
    ELSE IF e.op = "js_click" /\ e.arg = "continue" THEN 3
    ELSE IF e.op = "fill" /\ e.arg = "password" THEN 4
    ELSE IF e.op = "click" /\ e.arg = "submit" THEN 5
    ELSE IF e.op = "current_url" THEN 6
    ELSE 0

StageEntries(k) == {i \in DOMAIN trace : LoginStage(trace[i]) = k}

\* C30: login advances only along START, USERNAME_FILLED, (PASSWORD_VISIBLE,
\* or CONTINUE_REQUIRED then PASSWORD_VISIBLE), PASSWORD_FILLED, SUBMITTED,
\* (VERIFIED or SUSPECT): the stages are entered in that order, each at
\* most once and each only after the one before it; the password is never
\* typed before the username, the submit control is never activated before
\* the password was typed, and the continue control is activated only when
\* the probe saw no password field.
C30_LoginStagesInOrder ==
    /\ \A i, j \in DOMAIN trace :
          (i < j /\ LoginStage(trace[i]) > 0 /\ LoginStage(trace[j]) > 0)
              => LoginStage(trace[i]) < LoginStage(trace[j])
    /\ \A i \in StageEntries(2) : \E h \in StageEntries(1) : h < i
    /\ \A i \in StageEntries(3) : \E h \in StageEntries(2) : h < i /\ ~trace[h].ok
    /\ \A i \in StageEntries(4) :
          /\ \E h \in StageEntries(1) : h < i
          /\ \E h \in StageEntries(2) :
                h < i /\ (trace[h].ok \/ \E c \in StageEntries(3) : h < c /\ c < i)
    /\ \A i \in StageEntries(5) : \E h \in StageEntries(4) : h < i
    /\ \A i \in StageEntries(6) : \E h \in StageEntries(5) : h < i
    /\ \A i \in At("login_return") :
          trace[i].ok => \A k \in {1, 2, 4, 5, 6} : \E h \in StageEntries(k) : h < i

\* C30 witness: a two-step login ran through every stage, the continue
\* control included, and returned True.
C30_Witness ==
    /\ loc.login = "true"
    /\ \A k \in 1..6 : Cardinality(StageEntries(k)) = 1
    /\ \E c \in StageEntries(3), f \in StageEntries(4), b \in StageEntries(5) :
          c < f /\ f < b

\* C30 single-step path reached: a login that skipped the continue stage and
\* returned True.
C30_SingleStep ==
    /\ loc.login = "true"
    /\ StageEntries(3) = {}
    /\ \A k \in {1, 2, 4, 5, 6} : Cardinality(StageEntries(k)) = 1

(***************************************************************************)
(* src/config_manager.py                                                   *)
(*                                                                         *)
(* config_data is a nested dict.  It is kept as the function that maps     *)
(* every path of keys that exists in it to the value bound there: a Python *)
(* scalar, or Section for a nested dict.  Every proper prefix of a path of *)
(* the function is itself a path, bound to Section.                        *)
(***************************************************************************)
NoneValue == [t |-> "none"]
StrValue(s) == [t |-> "str", v |-> s]
IntValue(n) == [t |-> "int", v |-> n]
BoolValue(b) == [t |-> "bool", v |-> b]
\* The float a text denotes is kept as that text.
FloatValue(s) == [t |-> "float", v |-> s]
Section == [t |-> "dict"]

\* key.split('.') of the dotted keys the operations are called with.
ConfigNames == {"user", "Password"}

ConfigKeys ==
    {<<a>> : a \in ConfigNames}
    \cup {<<a, b>> : a \in ConfigNames, b \in ConfigNames}
    \cup {<<"user", "Password", "user">>}

\* The values set is called with.
ConfigValues == {StrValue("hunter2"), StrValue(""), NoneValue, IntValue(42)}

\* The default get is called with.
ConfigDefaults == {NoneValue, StrValue("text")}

\* The empty dict.
EmptyConfig == [p \in {} |-> NoneValue]

\* The paths below path p.
Below(data, p) ==
    {q \in DOMAIN data : Len(q) > Len(p) /\ SubSeq(q, 1, Len(p)) = p}

\* current[k] = value for the dict at the parent of path p: the binding of p
\* is replaced, with everything that was below it.
Assign(data, p, value) ==
    [q \in ((DOMAIN data) \ Below(data, p)) \cup {p} |->
        IF q = p THEN value ELSE data[q]]

\* Lines 111-121, the loop from its i-th key on.  current is the value at
\* keys[1..i-1]; `k not in current`, current[k] = {} and current[k] = value
\* raise TypeError when current is a scalar.
RECURSIVE SetWalk(_, _, _, _)
SetWalk(data, keys, i, value) ==
    LET at == SubSeq(keys, 1, i - 1)
        next == SubSeq(keys, 1, i)
    IN IF i > 1 /\ data[at] # Section
       THEN [data |-> data, raised |-> "TypeError"]
       ELSE IF i = Len(keys)
       THEN [data |-> Assign(data, keys, value), raised |-> "none"]
       ELSE SetWalk(IF next \in DOMAIN data THEN data ELSE Assign(data, next, Section),
                    keys, i + 1, value)

\* Lines 111-121.
SetNestedKey(data, keys, value) == SetWalk(data, keys, 1, value)

\* Lines 128-131, the loop from its i-th key on: current[k] raises KeyError
\* when the dict current has no key k and TypeError when current is a scalar.
RECURSIVE GetWalk(_, _, _)
GetWalk(data, keys, i) ==
    LET at == SubSeq(keys, 1, i - 1)
        next == SubSeq(keys, 1, i)
    IN IF i > Len(keys) THEN [exc |-> "none", value |-> data[keys]]
       ELSE IF i > 1 /\ data[at] # Section THEN [exc |-> "TypeError"]
       ELSE IF next \notin DOMAIN data THEN [exc |-> "KeyError"]
       ELSE GetWalk(data, keys, i + 1)

\* A lookup that handles a missing key only.
MutCaught == {"KeyError"}

\* Line 132: the exceptions _get_nested_key turns into the default.
Caught == {"KeyError", "TypeError"}

\* Lines 123-133 and 143-153: the value get returns, the exception it
\* raises, and the dict it leaves.
GetNestedKey(data, keys, default) ==
    LET w == GetWalk(data, keys, 1)
    IN IF w.exc = "none" THEN [data |-> data, value |-> w.value, raised |-> "none"]
       ELSE IF w.exc \in Caught THEN [data |-> data, value |-> default, raised |-> "none"]
       ELSE [data |-> data, value |-> NoneValue, raised |-> w.exc]

\* validate_required that looks for the key itself instead of its value.
MutIsMissing(data, keys) == keys \notin DOMAIN data

\* Line 187: self.get(key) is None.
IsMissing(data, keys) ==
    LET g == GetNestedKey(data, keys, NoneValue)
    IN g.raised = "none" /\ g.value = NoneValue

\* Lines 175-191.
ValidateRequired(data, required_keys) ==
    LET missing_keys == {k \in required_keys : IsMissing(data, k)}
    IN [data |-> data, missing |-> missing_keys,
        raised |-> IF missing_keys # {} THEN "ValueError" ELSE "none"]

\* Line 202.
sensitive_keys == {"password", "key", "secret", "token"}

\* Line 209: any(sensitive in k.lower() for sensitive in sensitive_keys).
IsSensitive(k) ==
    \E sensitive \in sensitive_keys : IsSubstring(CharsOf(sensitive), Lower(CharsOf(k)))

\* bool(v) of a scalar.
Truthy(v) ==
    CASE v.t = "none" -> FALSE
      [] v.t = "str" -> v.v # ""
      [] v.t = "int" -> v.v # 0
      [] v.t = "bool" -> v.v
      [] OTHER -> TRUE

RECURSIVE DecimalLen(_)
DecimalLen(n) == IF n < 0 THEN 1 + DecimalLen(0 - n)
                 ELSE IF n < 10 THEN 1 ELSE 1 + DecimalLen(n \div 10)

\* len(str(v)) of a scalar.
StrLen(v) ==
    CASE v.t = "str" -> Len(CharsOf(v.v))
      [] v.t = "int" -> DecimalLen(v.v)
      [] v.t = "bool" -> IF v.v THEN Len(<<"T", "r", "u", "e">>) ELSE Len(<<"F", "a", "l", "s", "e">>)
      [] v.t = "float" -> Len(CharsOf(v.v))
      [] OTHER -> Len(<<"N", "o", "n", "e">>)

\* '*' * n
Stars(n) == [t |-> "stars", n |-> n]

\* Lines 204-213: what mask_sensitive puts at each path.  A dict is entered
\* whatever its key is; a scalar under a sensitive key becomes stars, or
\* None when it is falsy; any other scalar is copied.
MaskSensitive(data) ==
    [p \in DOMAIN data |->
        LET k == p[Len(p)]
            v == data[p]
        IN IF v = Section THEN Section
           ELSE IF IsSensitive(k) THEN (IF Truthy(v) THEN Stars(StrLen(v)) ELSE NoneValue)
           ELSE v]

\* Lines 193-215: __str__ prints the masked copy; the dict is left as it is.
ConfigToStr(data) == [data |-> data, text |-> MaskSensitive(data)]

DigitValue ==
    ("0" :> 0) @@ ("1" :> 1) @@ ("2" :> 2) @@ ("3" :> 3) @@ ("4" :> 4)
    @@ ("5" :> 5) @@ ("6" :> 6) @@ ("7" :> 7) @@ ("8" :> 8) @@ ("9" :> 9)

IsDigits(cs) == \A i \in 1..Len(cs) : cs[i] \in DOMAIN DigitValue

RECURSIVE DigitsToInt(_)
DigitsToInt(cs) ==
    IF cs = <<>> THEN 0
    ELSE 10 * DigitsToInt(SubSeq(cs, 1, Len(cs) - 1)) + DigitValue[cs[Len(cs)]]

\* The sign and the rest of a numeral.
Unsigned(cs) == IF cs # <<>> /\ cs[1] \in {"+", "-"} THEN Tail(cs) ELSE cs

Signed(cs, n) == IF cs # <<>> /\ cs[1] = "-" THEN 0 - n ELSE n

\* int(value) for a text without blanks and underscores: an optional sign
\* and at least one digit, else ValueError.
IntOf(cs) ==
    LET body == Unsigned(cs)
    IN IF body # <<>> /\ IsDigits(body)
       THEN [ok |-> TRUE, n |-> Signed(cs, DigitsToInt(body))]
       ELSE [ok |-> FALSE]

\* float(value) for a text with a point and without exponent: an optional
\* sign, digits, one point, digits, at least one digit in all.
FloatOk(cs) ==
    LET body == Unsigned(cs)
    IN \E i \in 1..Len(body) :
          /\ body[i] = "."
          /\ IsDigits(SubSeq(body, 1, i - 1))
          /\ IsDigits(SubSeq(body, i + 1, Len(body)))
          /\ Len(body) > 1

\* A conversion that compares the text as it is written.
MutTextForWords(cs) == cs

\* Lines 94 and 96: value.lower().
TextForWords(cs) == Lower(cs)

\* Lines 94 and 96: the texts that become True and False.
TrueWords == {"true", "yes", "1", "on"}

FalseWords == {"false", "no", "0", "off"}

\* Lines 88-109, for a str value.
ConvertValue(value) ==
    LET cs == CharsOf(value)
    IN IF TextForWords(cs) \in {CharsOf(w) : w \in TrueWords} THEN BoolValue(TRUE)
       ELSE IF TextForWords(cs) \in {CharsOf(w) : w \in FalseWords} THEN BoolValue(FALSE)
       ELSE IF IsSubstring(<<".">>, cs)
       THEN (IF FloatOk(cs) THEN FloatValue(value) ELSE StrValue(value))
       ELSE IF IntOf(cs).ok THEN IntValue(IntOf(cs).n)
       ELSE StrValue(value)

\* The texts _convert_value is called with.
ConvertInputs ==
    {"true", "TRUE", "True", "false", "False", "yes", "On", "no", "off",
     "0", "1", "42", "-7", "007", "10", "3.14", "1.2.3", "text", "hunter2", "user", ""}

(***************************************************************************)
(* The specification of a ConfigManager: one object, called from one       *)
(* thread.  config holds config_data, trace the calls of set, and loc the  *)
(* call that returned last with its arguments and outcome.  get,           *)
(* validate_required, str and _convert_value are called on the             *)
(* configuration as construction or a set left it.                         *)
(***************************************************************************)
\* Largest number of set calls in a behaviour.
MaxSets == 2

\* config_data after construction: nothing was loaded, or a file bound a
\* key to null.
InitialConfigs ==
    {EmptyConfig,
     (<<"user">> :> Section) @@ (<<"user", "Password">> :> NoneValue)}

InitConfig ==
    /\ ServerIdle
    /\ entry = "config"
    /\ command = NoCommand
    /\ config \in InitialConfigs
    /\ pc = "ready"
    /\ browser = "none"
    /\ url = "blank"
    /\ dom = <<>>
    /\ loc = [op |-> "init"]
    /\ trace = <<>>
    /\ screenshots = {}
    /\ exitCode = -1

ConfigIdle == UNCHANGED <<entry, command, pc, browser, url, dom, screenshots, exitCode>>

\* The configuration is as construction or a set left it.
Fresh == entry = "config" /\ loc.op \in {"init", "set"}

\* Lines 155-162: config.set(key, value).
ConfigSet(keys, value) ==
    /\ entry = "config" /\ Len(trace) < MaxSets
    /\ LET r == SetNestedKey(config, keys, value)
       IN /\ config' = r.data
          /\ loc' = [op |-> "set", key |-> keys, value |-> value,
                     raised |-> r.raised, before |-> config]
          /\ trace' = Append(trace, [op |-> "set", ok |-> r.raised = "none"])
    /\ ConfigIdle

\* What the call before this one was, when it was a set.
PreviousSet ==
    IF loc.op = "set"
    THEN [op |-> "set", key |-> loc.key, value |-> loc.value, raised |-> loc.raised]
    ELSE [op |-> "other"]

\* Lines 143-153: config.get(key, default).
ConfigGet(keys, default) ==
    /\ Fresh
    /\ LET r == GetNestedKey(config, keys, default)
       IN /\ config' = r.data
          /\ loc' = [op |-> "get", key |-> keys, default |-> default,
                     result |-> r.value, raised |-> r.raised, before |-> config,
                     previous |-> PreviousSet]
    /\ UNCHANGED trace
    /\ ConfigIdle

\* Lines 175-191: config.validate_required(required_keys).
ConfigValidateRequired(required_keys) ==
    /\ Fresh
    /\ LET r == ValidateRequired(config, required_keys)
       IN /\ config' = r.data
          /\ loc' = [op |-> "validate_required", keys |-> required_keys,
                     missing |-> r.missing, raised |-> r.raised, before |-> config]
    /\ UNCHANGED trace
    /\ ConfigIdle

\* Lines 197-215: str(config).
ConfigStr ==
    /\ Fresh
    /\ LET r == ConfigToStr(config)
       IN /\ config' = r.data
          /\ loc' = [op |-> "str", result |-> r.text, before |-> config]
    /\ UNCHANGED trace
    /\ ConfigIdle

\* Lines 88-109: config._convert_value(value).
ConfigConvertValue(value) ==
    /\ Fresh
    /\ loc' = [op |-> "convert_value", value |-> value, result |-> ConvertValue(value),
               before |-> config]
    /\ UNCHANGED <<config, trace>>
    /\ ConfigIdle

\* The lists validate_required is called with: up to two keys.
RequiredLists == {ks \in SUBSET ConfigKeys : Cardinality(ks) <= Cardinality(ConfigNames)}

NextConfig ==
    \/ \E keys \in ConfigKeys, value \in ConfigValues : Run(ConfigSet(keys, value))
    \/ \E keys \in ConfigKeys, default \in ConfigDefaults : Run(ConfigGet(keys, default))
    \/ \E required_keys \in RequiredLists : Run(ConfigValidateRequired(required_keys))
    \/ Run(ConfigStr)
    \/ \E value \in ConvertInputs : Run(ConfigConvertValue(value))

SpecConfig == InitConfig /\ [][NextConfig]_vars

(***************************************************************************)
(* Claims about ConfigManager, checked under SpecConfig.                   *)
(***************************************************************************)
\* C25: config.set(k, v) followed by config.get(k) returns v, for every key
\* and value, after any sequence of earlier set calls: the set returns
\* without raising and the get that follows it answers v.
C25_SetThenGetReturnsValue ==
    (entry = "config" /\ loc.op = "get" /\ loc.previous.op = "set"
                      /\ loc.previous.key = loc.key) =>
        /\ loc.previous.raised = "none"
        /\ loc.raised = "none"
        /\ loc.result = loc.previous.value

\* Some proper prefix of the key is bound to a value that is not a section.
PrefixIsScalar(data, keys) ==
    \E i \in 1..(Len(keys) - 1) :
        /\ SubSeq(keys, 1, i) \in DOMAIN data
        /\ data[SubSeq(keys, 1, i)] # Section

\* C26: config.get(k, d) returns d whenever k is not present, a prefix of k
\* bound to a value that is not a section included; it returns the bound
\* value otherwise, never raises and leaves the configuration as it was.
C26_GetReturnsDefaultWhenAbsent ==
    (entry = "config" /\ loc.op = "get") =>
        /\ loc.raised = "none"
        /\ config = loc.before
        /\ (loc.key \notin DOMAIN config) => (loc.result = loc.default)
        /\ PrefixIsScalar(config, loc.key) => (loc.result = loc.default)
        /\ (loc.key \in DOMAIN config) => (loc.result = config[loc.key])

\* C26 witness: get was called with a default that is not None for a key
\* one of whose prefixes is bound to a scalar, and returned the default.
C26_Witness ==
    /\ entry = "config" /\ loc.op = "get"
    /\ PrefixIsScalar(config, loc.key)
    /\ loc.default = StrValue("text")
    /\ loc.result = loc.default
    /\ loc.raised = "none"

\* C27 as stated: validate_required(keys) raises ValueError iff at least
\* one listed key is absent from the configuration, and leaves the
\* configuration unchanged.
C27_RaisesIffKeyAbsent ==
    (entry = "config" /\ loc.op = "validate_required") =>
        /\ (loc.raised = "ValueError") <=> (\E k \in loc.keys : k \notin DOMAIN config)
        /\ config = loc.before

\* C27 amended: validate_required(keys) raises ValueError iff at least one
\* listed key is absent from the configuration or bound to None; otherwise
\* it returns without raising; in both cases the configuration is left
\* unchanged.
C27_RaisesIffKeyAbsentOrNone ==
    (entry = "config" /\ loc.op = "validate_required") =>
        /\ (loc.raised = "ValueError") <=>
              (\E k \in loc.keys : k \notin DOMAIN config \/ config[k] = NoneValue)
        /\ loc.raised \in {"none", "ValueError"}
        /\ config = loc.before

\* C27 witness: validate_required was called with a key bound to a value
\* and a key bound to None, and raised.
C27_Witness ==
    /\ entry = "config" /\ loc.op = "validate_required"
    /\ loc.keys \subseteq DOMAIN config
    /\ \E k \in loc.keys : config[k] = NoneValue
    /\ \E k \in loc.keys : config[k].t = "str"
    /\ loc.raised = "ValueError"

\* C27, the other case reached: every listed key is bound to a value and
\* validate_required returned.
C27_AllPresent ==
    /\ entry = "config" /\ loc.op = "validate_required"
    /\ Cardinality(loc.keys) > 1
    /\ \A k \in loc.keys : k \in DOMAIN config /\ config[k] \notin {NoneValue, Section}
    /\ loc.raised = "none"

\* The scalar at path p lies in the value of a key whose name contains
\* 'password', 'key', 'secret' or 'token'.
UnderSensitiveKey(p) == \E i \in 1..Len(p) : IsSensitive(p[i])

\* C28: str(config) never contains the value of a key whose name contains
\* 'password', 'key', 'secret' or 'token' in any case, at any nesting
\* depth: no non-empty value bound at or below such a key is printed as it
\* is, and producing the string leaves the configuration unchanged.
C28_SensitiveValuesNotPrinted ==
    (entry = "config" /\ loc.op = "str") =>
        /\ config = loc.before
        /\ \A p \in DOMAIN config :
              (UnderSensitiveKey(p) /\ config[p] # Section /\ Truthy(config[p]))
                  => loc.result[p] # config[p]

\* The integer each decimal integer text denotes.
DecimalTexts ==
    ("0" :> 0) @@ ("1" :> 1) @@ ("10" :> 10) @@ ("42" :> 42) @@ ("007" :> 7)
    @@ ("-7" :> 0 - 7)

FloatTexts == {"3.14"}

IsWord(value, words) == Lower(CharsOf(value)) \in {CharsOf(w) : w \in words}

\* C29 as stated: _convert_value maps 'true' and 'false' in any case to the
\* booleans, every decimal integer string to that integer, and every string
\* that is neither boolean-like nor numeric to itself.
C29_ConvertValueAsStated ==
    (entry = "config" /\ loc.op = "convert_value") =>
        /\ IsWord(loc.value, {"true"}) => (loc.result = BoolValue(TRUE))
        /\ IsWord(loc.value, {"false"}) => (loc.result = BoolValue(FALSE))
        /\ (loc.value \in DOMAIN DecimalTexts) =>
              (loc.result = IntValue(DecimalTexts[loc.value]))
        /\ (/\ ~IsWord(loc.value, {"true", "false", "yes", "no", "on", "off"})
            /\ loc.value \notin (DOMAIN DecimalTexts) \cup FloatTexts)
              => (loc.result = StrValue(loc.value))

\* C29 amended: _convert_value maps 'true', 'yes', 'on' and '1' (in any
\* case) to True, 'false', 'no', 'off' and '0' to False, every other decimal
\* integer string to that integer, and every string that is neither
\* boolean-like nor numeric to itself.
C29_ConvertValue ==
    (entry = "config" /\ loc.op = "convert_value") =>
        /\ IsWord(loc.value, {"true", "yes", "on", "1"}) => (loc.result = BoolValue(TRUE))
        /\ IsWord(loc.value, {"false", "no", "off", "0"}) => (loc.result = BoolValue(FALSE))
        /\ (loc.value \in (DOMAIN DecimalTexts) \ {"0", "1"}) =>
              (loc.result = IntValue(DecimalTexts[loc.value]))
        /\ (/\ ~IsWord(loc.value, {"true", "false", "yes", "no", "on", "off"})
            /\ loc.value \notin (DOMAIN DecimalTexts) \cup FloatTexts)
              => (loc.result = StrValue(loc.value))
        /\ config = loc.before

\* C29 witness: _convert_value was called with '007' and returned 7.
C29_Witness ==
    /\ entry = "config" /\ loc.op = "convert_value"
    /\ loc.value = "007"
    /\ loc.result = IntValue(7)

\* C29, the boolean case reached: 'TRUE' became True.
C29_UpperCaseTrue ==
    /\ entry = "config" /\ loc.op = "convert_value"
    /\ loc.value = "TRUE"
    /\ loc.result = BoolValue(TRUE)

(***************************************************************************)
(* Claims about the end of login, checked under SpecLogin.                 *)
(***************************************************************************)
\* The reads of the location that found the authentication host.
Suspect == {i \in At("current_url") : trace[i].ok /\ trace[i].arg = "auth"}

\* C31: when the location read after submit is still on the authentication
\* host, login asks for exactly one screenshot (login_verification_needed,
\* written when screenshots are on and the write succeeds), waits exactly
\* once and returns: the read is followed by the screenshot, the wait and
\* the return, in that order; the location is read once, submit is
\* activated once, and neither the screenshot nor the wait occurs otherwise.
C31_OneScreenshotOneGraceWait ==
    /\ \A i \in Suspect :
          /\ i + 3 <= Len(trace)
          /\ trace[i + 1].op = "screenshot"
          /\ trace[i + 1].arg = "login_verification_needed"
          /\ trace[i + 2].op = "grace_wait"
          /\ trace[i + 3].op = "login_return"
          /\ \A j \in DOMAIN trace :
                j > i => ~(trace[j].op \in {"click", "js_click", "fill", "get"}
                           /\ trace[j].arg \in {"submit", "continue", "username",
                                                "password", "login"})
    /\ Cardinality(At("current_url")) <= 1
    /\ Cardinality(AtArg("click", "submit")) <= 1
    /\ Cardinality(At("grace_wait")) = Cardinality(Suspect)
    /\ Cardinality(AtArg("screenshot", "login_verification_needed")) = Cardinality(Suspect)
    /\ \A i \in AtArg("screenshot", "login_verification_needed") :
          trace[i].ok => "login_verification_needed" \in screenshots

\* C31 witness: login ended on the authentication host with the screenshot
\* written and the wait done, and the run went on.
C31_Witness ==
    /\ Suspect # {}
    /\ "login_verification_needed" \in screenshots
    /\ Cardinality(At("grace_wait")) = 1
    /\ At("login_return") # {}
    /\ pc = "exited"

\* C32: once the submit control was activated and nothing raised afterwards
\* (the location was read), login returns True, also when the location is
\* still on the authentication host; the location is read once, before the
\* wait, and not after it.
C32_SubmittedLoginReturnsTrue ==
    \A i \in AtArg("click", "submit") : \A r \in At("login_return") :
        /\ r > i
        /\ (\E u \in At("current_url") : trace[u].ok) => trace[r].ok
        /\ trace[r].ok => \E u \in At("current_url") : i < u /\ u < r /\ trace[u].ok
        /\ \A w \in At("grace_wait") : \A u \in At("current_url") : u < w

\* C32 witness: login returned True although the location it read was the
\* authentication host.
C32_Witness ==
    /\ Suspect # {}
    /\ loc.login = "true"
    /\ url = "auth"
    /\ \E r \in At("login_return") : trace[r].ok

(***************************************************************************)
(* Claims about the order of set_heating_mode, checked under SpecMode.     *)
(***************************************************************************)
\* C33: within set_heating_mode the activations happen in the order device
\* selection, system control surface, mode control: when the Device
\* Selector failed nothing is activated on a system surface or a mode
\* control, and a mode control is activated only after the system control
\* surface was activated in the same call.
C33_DeviceThenSystemThenMode ==
    /\ \A i \in At("system_click") \cup At("mode_click") :
          \E s \in Done("select_click") : s < i
    /\ \A i \in At("mode_click") : \E y \in Done("system_click") : y < i

\* C34: a label that matches the requested mode is clicked itself first;
\* the control its 'for' attribute names is clicked only after that click
\* failed, and it is the next thing done; either click going through makes
\* set_heating_mode return True at once.
C34_LabelFirstThenLinkedControl ==
    /\ \A i \in AtArg("mode_click", "label") :
          /\ LabelMatches(dom[trace[i].n], loc.mode)
          /\ trace[i].ok <=> Interactable(dom[trace[i].n])
          /\ (~trace[i].ok /\ dom[trace[i].n].for \in 1..Len(dom) /\ browser = "open") =>
                /\ i < Len(trace)
                /\ trace[i + 1].op = "mode_click" /\ trace[i + 1].arg = "radio"
                /\ trace[i + 1].n = dom[trace[i].n].for
    /\ \A i \in AtArg("mode_click", "radio") :
          /\ i > 1
          /\ trace[i - 1].op = "mode_click" /\ trace[i - 1].arg = "label"
          /\ ~trace[i - 1].ok
          /\ dom[trace[i - 1].n].for = trace[i].n
    /\ \A i \in Done("mode_click") :
          (trace[i].arg \in {"label", "radio"} /\ pc = "cmd_return") =>
              /\ loc.op = "true"
              /\ trace[i + 1].op = "op_return" /\ trace[i + 1].ok

\* C34 witness: the click on the matching label failed, the control its
\* 'for' names was clicked next, and the call returned True.
C34_Witness ==
    /\ pc = "cmd_return" /\ loc.op = "true"
    /\ \E i \in AtArg("mode_click", "radio") :
          /\ trace[i].ok
          /\ trace[i - 1].arg = "label" /\ ~trace[i - 1].ok
          /\ dom[trace[i - 1].n].for = trace[i].n
          /\ dom[trace[i].n].type = "radio"

\* The labels of page d.
LabelsOf(d) == {i \in 1..Len(d) : d[i].tag = "label"}

\* C35: a request for mode aux matches a label reading 'Auxiliary Heat':
\* when the system page was opened on a live session and that label is its
\* only label, shown and clickable, set_heating_mode('aux', device) clicks
\* it as a label and returns True.
C35_AuxMatchesAuxiliaryHeat ==
    \A i \in LabelsOf(dom) :
        (/\ pc = "cmd_return" /\ browser = "open"
         /\ loc.mode = "aux"
         /\ Done("system_click") # {}
         /\ LabelsOf(dom) = {i}
         /\ dom[i].text = "Auxiliary Heat" /\ Interactable(dom[i]))
        =>
        /\ loc.op = "true"
        /\ \E c \in Done("mode_click") : trace[c].arg = "label" /\ trace[c].n = i
        /\ Cardinality(At("mode_click")) = 1

\* C35 witness: the system page held the one label 'Auxiliary Heat', the
\* call for aux clicked it and returned True.
C35_Witness ==
    /\ pc = "cmd_return" /\ loc.mode = "aux" /\ loc.op = "true"
    /\ Done("system_click") # {}
    /\ Len(dom) = 1 /\ dom[1].tag = "label" /\ dom[1].text = "Auxiliary Heat"
    /\ \E c \in Done("mode_click") : trace[c].arg = "label" /\ trace[c].n = 1

(***************************************************************************)
(* Claims about the locators on login pages, checked under SpecLogin.      *)
(***************************************************************************)
\* The run is inside login, on a login page, with a live session.
InLoginStage ==
    /\ pc \in {"login_username", "login_probe", "login_branch", "login_password",
               "login_submit"}
    /\ browser = "open"

\* Element e is a submit control by its type or by its text.
IsSubmitLike(e) ==
    \/ e.tag \in {"button", "input"} /\ e.type = "submit"
    \/ e.tag = "button" /\ \E w \in LoginWords : IsSubstring(CharsOf(w), Lower(CharsOf(e.text)))

UsableButton(e) == e.tag = "button" /\ e.displayed /\ e.enabled

\* C36: on every login page, _find_submit_button returns a button that is
\* submit-like neither by type nor by text only as the default: then the
\* page holds no button[type=submit], no input[type=submit] and no button
\* whose text has a login word, and the result is the first displayed and
\* enabled button, never a hidden or disabled one; when the page has a
\* submit-like element the result is submit-like; when it has none and no
\* button is displayed and enabled the result is not-found.
C36_DefaultButtonOnlyAsLastResort ==
    InLoginStage =>
        LET b == FindSubmitButton(dom, TRUE)
            submitLike == {i \in 1..Len(dom) : IsSubmitLike(dom[i])}
            usable == {i \in 1..Len(dom) : UsableButton(dom[i])}
        IN /\ b \in 0..Len(dom)
           /\ submitLike # {} => b \in submitLike
           /\ (b > 0 /\ b \notin submitLike) =>
                 /\ submitLike = {}
                 /\ b \in usable
                 /\ \A j \in usable : b <= j
           /\ (submitLike = {} /\ usable = {}) => b = 0

\* C36 witness: a page whose first button is hidden or disabled and whose
\* only other button is an ordinary one; the continue lookup returned the
\* second and login clicked it.
C36_Witness ==
    /\ pc = "login_password" /\ browser = "open"
    /\ \E c \in AtArg("js_click", "continue") :
          LET b == trace[c].n
          IN /\ b = FindSubmitButton(dom, TRUE)
             /\ b > 1
             /\ UsableButton(dom[b]) /\ ~IsSubmitLike(dom[b])
             /\ \E j \in 1..(b - 1) : dom[j].tag = "button" /\ ~UsableButton(dom[j])

\* What a step added to the history.
NewEvents == SubSeq(trace', Len(trace) + 1, Len(trace'))

\* C37: _find_input_field and _find_submit_button only read the page: a
\* step of login in which a lookup was made and nothing was clicked, typed
\* or opened leaves the page, the location and the session as they were,
\* whether the lookup found an element or not; the page changes only in
\* steps that click or navigate.
C37_LocatorsOnlyRead ==
    [][(/\ Len(trace') > Len(trace)
        /\ \E i \in 1..Len(NewEvents) : NewEvents[i].op \in {"find_input", "find_submit"}
        /\ \A i \in 1..Len(NewEvents) :
               NewEvents[i].op \notin {"click", "js_click", "get"})
       => (dom' = dom /\ url' = url /\ browser' = browser)]_vars

\* C37 witness: the probe looked for a password field on a page that has a
\* hidden one, found none shown, and the page still holds it hidden.
C37_Witness ==
    /\ pc = "login_branch" /\ browser = "open" /\ url = "auth"
    /\ \E i \in AtArg("find_input", "probe") : ~trace[i].ok /\ i = Len(trace)
    /\ \E j \in 1..Len(dom) : IsTypeExact(dom[j], "password") /\ ~dom[j].displayed

(***************************************************************************)
(* Claims about the life of automation_lock, checked under SpecServerFair. *)
(***************************************************************************)
\* C38: automation_lock is locked exactly while an accepted call is between
\* its acquire and its return; it is unlocked only by the return of the call
\* that acquired it, on every exit path (exit code 0, another exit code,
\* timeout, exception), and never by a call that was rejected as busy; a
\* call that tries the free lock is accepted; and a locked lock is
\* eventually free again.
C38_LockHeldExactlyWhileInFlight ==
    /\ [](automation_lock <=> InFlight # {})
    /\ [][(automation_lock /\ ~automation_lock') =>
            \E r \in Requests :
                /\ InFlight = {r}
                /\ reqPc[r] = "finally" /\ reqPc'[r] = "returned"
                /\ IsRunResult(reqResult'[r])]_vars
    /\ [][\A r \in Requests :
            (reqPc[r] = "finally" /\ reqPc'[r] = "returned") => ~automation_lock']_vars
    /\ [][\A r \in Requests :
            (reqPc[r] = "idle" /\ reqPc'[r] # "idle") =>
                (IF automation_lock
                 THEN reqPc'[r] = "returned" /\ reqResult'[r] = BusyResult /\ automation_lock'
                 ELSE reqPc'[r] = "try" /\ automation_lock')]_vars
    /\ (automation_lock ~> ~automation_lock)

\* C38 witness: a call was rejected as busy, the holder ran into the
\* timeout and returned, and with the lock free again a third call was
\* accepted.
C38_Witness ==
    \E r1, r2, r3 \in Requests :
        /\ reqPc[r1] = "returned" /\ reqResult[r1] = TimeoutResult
        /\ reqPc[r2] = "returned" /\ reqResult[r2] = BusyResult
        /\ r1 \in reqInFlightAtCall[r2]
        /\ reqPc[r3] = "try" /\ reqInFlightAtCall[r3] = {}
        /\ automation_lock

(***************************************************************************)
(* Claims about missing credentials, checked under SpecRun.                *)
(***************************************************************************)
\* A credential that has no value at all (config.get returns None).
NotConfigured == config.username = "absent" \/ config.password = "absent"

env_mappings ==
    [ECOBEE_USERNAME |-> <<"ecobee", "username">>,
     ECOBEE_PASSWORD |-> <<"ecobee", "password">>,
     WEBDRIVER_HEADLESS |-> <<"webdriver", "headless">>,
     WEBDRIVER_IMPLICIT_WAIT |-> <<"webdriver", "implicit_wait">>,
     WEBDRIVER_PAGE_LOAD_TIMEOUT |-> <<"webdriver", "page_load_timeout">>,
     AUTOMATION_DELAY |-> <<"automation", "delay">>,
     MAX_RETRY_ATTEMPTS |-> <<"automation", "max_retry_attempts">>,
     SCREENSHOT_ON_ERROR |-> <<"automation", "screenshot_on_error">>,
     LOG_LEVEL |-> <<"logging", "level">>,
     LOG_FILE |-> <<"logging", "file">>]

\* Line 74.
config_files == <<"default.yml", "config.yml", "local.yml">>

\* The keys of the dict at path p.
Children(data, p) ==
    {q \in DOMAIN data : Len(q) = Len(p) + 1 /\ SubSeq(q, 1, Len(p)) = p}

\* Line 141, base[key] = value: what path q binds in override, a scalar or a
\* whole dict, replaces what q binds in base.
Graft(base, override, q) ==
    LET moved == {q} \cup Below(override, q)
    IN [r \in ((DOMAIN base) \ Below(base, q)) \cup moved |->
           IF r \in moved THEN override[r] ELSE base[r]]

\* Lines 137-141, the loop over the keys `todo` of one dict of override.
RECURSIVE MergeKeys(_, _, _)
MergeKeys(base, override, todo) ==
    IF todo = {} THEN base
    ELSE LET q == CHOOSE k \in todo : TRUE
             merged ==
                 IF q \in DOMAIN base /\ base[q] = Section /\ override[q] = Section
                 THEN MergeKeys(base, override, Children(override, q))
                 ELSE Graft(base, override, q)
         IN MergeKeys(merged, override, todo \ {q})

\* A merge that replaces every top-level key of base that override has, as
\* dict.update does.
MutMergeConfig(base, override) ==
    LET top == Children(override, <<>>)
        moved == top \cup UNION {Below(override, q) : q \in top}
        gone == UNION {Below(base, q) : q \in top}
    IN [r \in ((DOMAIN base) \ gone) \cup moved |->
           IF r \in moved THEN override[r] ELSE base[r]]

\* Lines 135-141.
MergeConfig(base, override) == MergeKeys(base, override, Children(override, <<>>))

\* Lines 61-66, the loop over the variables `todo` of env_mappings: a
\* variable that is set is converted and stored under its key.
RECURSIVE LoadEnvironment(_, _, _)
LoadEnvironment(data, environ, todo) ==
    IF todo = {} THEN data
    ELSE LET env_var == CHOOSE v \in todo : TRUE
             stored ==
                 IF env_var \in DOMAIN environ
                 THEN SetNestedKey(data, env_mappings[env_var],
                                   ConvertValue(environ[env_var])).data
                 ELSE data
         IN LoadEnvironment(stored, environ, todo \ {env_var})

\* What yaml.safe_load gives for a file: the file does not exist
\* ("missing"); it is empty or holds a falsy value ("none"); it holds a
\* mapping ("dict"); it does not parse, or holds a list or a text, so that
\* safe_load or _merge_config raises ("broken").
NoFile == [kind |-> "missing", data |-> EmptyConfig]
FalsyFile == [kind |-> "none", data |-> EmptyConfig]
BrokenFile == [kind |-> "broken", data |-> EmptyConfig]
DictFile(data) == [kind |-> "dict", data |-> data]

\* Lines 76-83, the loop from the i-th file on; line 85 ends the loading at
\* the first file that raises.
RECURSIVE LoadConfigFiles(_, _, _)
LoadConfigFiles(data, files, i) ==
    IF i > Len(config_files) THEN [data |-> data, warned |-> FALSE]
    ELSE IF files[i].kind = "broken" THEN [data |-> data, warned |-> TRUE]
    ELSE IF files[i].kind = "dict" /\ files[i].data # EmptyConfig
    THEN LoadConfigFiles(MergeConfig(data, files[i].data), files, i + 1)
    ELSE LoadConfigFiles(data, files, i + 1)

\* The mappings a configuration file holds.
FileDicts ==
    {(<<"ecobee">> :> Section) @@ (<<"ecobee", "username">> :> StrValue("alice")),
     (<<"ecobee">> :> Section) @@ (<<"ecobee", "username">> :> StrValue("bob"))
         @@ (<<"ecobee", "password">> :> StrValue("hunter2")),
     (<<"ecobee">> :> Section) @@ (<<"ecobee", "password">> :> StrValue("secret"))
         @@ (<<"logging">> :> Section) @@ (<<"logging", "level">> :> StrValue("INFO")),
     (<<"ecobee">> :> StrValue("text"))}

FileContents == {NoFile, FalsyFile, BrokenFile} \cup {DictFile(d) : d \in FileDicts}

\* The environments of the process.
Environments ==
    {EmptyConfig,
     [v \in {"ECOBEE_USERNAME"} |-> "hunter2"],
     [v \in {"ECOBEE_PASSWORD"} |-> "42"],
     [v \in {"ECOBEE_USERNAME", "LOG_LEVEL"} |-> IF v = "LOG_LEVEL" THEN "true" ELSE "user"]}

\* The keys the constructed configuration is asked for.
LoadKeys == {<<"ecobee", "username">>, <<"ecobee", "password">>, <<"logging", "level">>}

\* Before ConfigManager(config_dir): loc holds the environment and the
\* three files of config_dir.
InitLoad ==
    /\ ServerIdle
    /\ entry = "load"
    /\ command = NoCommand
    /\ config = EmptyConfig
    /\ pc = "new"
    /\ browser = "none"
    /\ url = "blank"
    /\ dom = <<>>
    /\ \E environ \in Environments, files \in [1..Len(config_files) -> FileContents] :
           loc = [op |-> "none", environ |-> environ, files |-> files]
    /\ trace = <<>>
    /\ screenshots = {}
    /\ exitCode = -1

\* Lines 18-36: ConfigManager(config_dir).
ConfigManagerInit ==
    /\ entry = "load" /\ pc = "new"
    /\ LET from_env == LoadEnvironment(EmptyConfig, loc.environ, DOMAIN env_mappings)
           r == LoadConfigFiles(from_env, loc.files, 1)
       IN /\ config' = r.data
          /\ loc' = [loc EXCEPT !.op = "init"]
          /\ trace' = <<[op |-> "load_environment", ok |-> TRUE],
                        [op |-> "load_config_files", ok |-> ~r.warned]>>
    /\ pc' = "ready"
    /\ UNCHANGED <<entry, command, browser, url, dom, screenshots, exitCode>>

\* Lines 143-153: config.get(key) on the constructed configuration.
LoadedGet(keys) ==
    /\ entry = "load" /\ pc = "ready" /\ loc.op = "init"
    /\ LET r == GetNestedKey(config, keys, NoneValue)
       IN /\ config' = r.data
          /\ loc' = [op |-> "get", environ |-> loc.environ, files |-> loc.files,
                     key |-> keys, result |-> r.value]
    /\ UNCHANGED <<entry, command, pc, browser, url, dom, trace, screenshots, exitCode>>

NextLoad ==
    \/ Run(ConfigManagerInit)
    \/ \E keys \in LoadKeys : Run(LoadedGet(keys))

SpecLoad == InitLoad /\ [][NextLoad]_vars

(***************************************************************************)
(* Claims about the construction of a ConfigManager, checked under         *)
(* SpecLoad.                                                               *)
(***************************************************************************)
\* The files that were merged: the files holding a non-empty mapping, up to
\* the first file that could not be read.
AppliedFiles ==
    {i \in DOMAIN loc.files :
        /\ loc.files[i].kind = "dict" /\ loc.files[i].data # EmptyConfig
        /\ \A j \in 1..i : loc.files[j].kind # "broken"}

\* A mapping that says nothing about path p: it binds neither p nor, to a
\* scalar, a section p lies in.
Silent(data, p) ==
    \A k \in 1..Len(p) :
        SubSeq(p, 1, k) \in DOMAIN data => (k < Len(p) /\ data[SubSeq(p, 1, k)] = Section)

\* The value the environment gives for path p.
EnvBinds(p, value) ==
    \E v \in DOMAIN loc.environ :
        env_mappings[v] = p /\ value = ConvertValue(loc.environ[v])

\* C40: in the constructed configuration every value of a merged file that
\* no later merged file speaks about is in place (so the later of two files
\* wins for a key both have, and a later file that has other keys of the
\* same section leaves the key alone); a value of the environment is in
\* place when no merged file speaks about its key, while a file that has
\* the key wins over the environment; and every value comes from a file or
\* from the environment.
C40_MergePrecedence ==
    (entry = "load" /\ pc = "ready") =>
        /\ \A i \in AppliedFiles : \A p \in DOMAIN loc.files[i].data :
              (/\ loc.files[i].data[p] # Section
               /\ \A j \in AppliedFiles : j > i => Silent(loc.files[j].data, p))
                  => (p \in DOMAIN config /\ config[p] = loc.files[i].data[p])
        /\ \A v \in DOMAIN loc.environ :
              (\A j \in AppliedFiles : Silent(loc.files[j].data, env_mappings[v]))
                  => /\ env_mappings[v] \in DOMAIN config
                     /\ config[env_mappings[v]] = ConvertValue(loc.environ[v])
        /\ \A p \in DOMAIN config :
              config[p] # Section =>
                  \/ \E i \in AppliedFiles :
                        p \in DOMAIN loc.files[i].data /\ loc.files[i].data[p] = config[p]
                  \/ EnvBinds(p, config[p])
        /\ loc.op = "get" =>
              loc.result = (IF loc.key \in DOMAIN config THEN config[loc.key] ELSE NoneValue)

\* C40 witness: the environment gives the username, default.yml gives
\* another username, config.yml a third one with a password, local.yml a
\* password and a log level; get('ecobee.username') returned config.yml's
\* username, and the password is local.yml's.
C40_Witness ==
    /\ entry = "load" /\ pc = "ready" /\ loc.op = "get"
    /\ "ECOBEE_USERNAME" \in DOMAIN loc.environ
    /\ AppliedFiles = {1, 2, 3}
    /\ <<"ecobee", "username">> \in DOMAIN loc.files[1].data
    /\ loc.files[1].data[<<"ecobee", "username">>] = StrValue("alice")
    /\ <<"ecobee", "username">> \in DOMAIN loc.files[2].data
    /\ loc.files[2].data[<<"ecobee", "username">>] = StrValue("bob")
    /\ <<"ecobee", "password">> \in DOMAIN loc.files[3].data
    /\ <<"ecobee", "username">> \notin DOMAIN loc.files[3].data
    /\ loc.key = <<"ecobee", "username">> /\ loc.result = StrValue("bob")
    /\ <<"ecobee", "password">> \in DOMAIN config
    /\ config[<<"ecobee", "password">>] = StrValue("secret")

====
